---- MODULE Spec2Model ----
(***************************************************************************)
(* A model of the TicTacToe server: Board, Game, GameManager, the          *)
(* ClientHandler sessions and the Server's message handlers.               *)
(*                                                                         *)
(* Pure operators compute what the Python methods compute; a method that   *)
(* mutates its object returns the mutated record.  Spec runs every request *)
(* handler as one step (requests handled one at a time).  The              *)
(* specifications further down run the handlers of several threads         *)
(* statement by statement.                                                 *)
(***************************************************************************)
EXTENDS Integers, Sequences, FiniteSets, TLC

(***************************************************************************)
(* Bounds of the exploration.                                              *)
(***************************************************************************)
\* The player ids of the connections accepted during a behaviour, in the
\* order they are handed out (each connection gets a fresh one).
PlayerIds == {1, 2, 3}
\* The game ids of the games created during a behaviour, in the order they
\* are handed out (each game gets a fresh one).
GameIds == {1}
\* Accepted moves explored per game in Spec.
MaxMoves == 3
\* The sessions of SpecSessions and SpecRoom: enough to fill a room of two.
RoomIds == {1, 2}
\* The coordinates MAKE_MOVE requests carry in SpecRoom.
RoomCoords == {0, 1}
\* Messages kept in sent before a receive thread of SpecRoom takes another
\* request.
MaxSent == 2
\* The num_players values CREATE_GAME requests carry in Spec: rooms of two
\* and three players, and a value on either side of the valid range 2..10.
RoomSizes == {1, 2, 3, 11}
\* The coordinates MAKE_MOVE requests carry in Spec: the four cells from
\* (0, 0) to (1, 1) and one value off the low edge.
Coords == {-1, 0, 1}

(***************************************************************************)
(* Values.                                                                 *)
(***************************************************************************)
\* Python's None for a grid cell or a symbol.
None == "None"
\* Python's None for a Player reference (player ids are 1, 2, ...).
NoPlayer == 0
\* Python's None for a game id or a Game reference (game ids are 1, 2, ...).
NoGame == 0

WAITING == "WAITING"
PLAYING == "PLAYING"
FINISHED == "FINISHED"

SYMBOLS == <<"X", "O", "TRIANGLE", "SQUARE", "DIAMOND", "STAR", "SPADE", "CLUB", "HEART", "DIAMONDS">>


(***************************************************************************)
(* Board                                                                   *)
(***************************************************************************)
\* A Board whose win_length equals the number of players.
NewBoard_win_players(num_players) ==
    [ num_players |-> num_players,
      size        |-> num_players + 1,
      win_length  |-> num_players,
      grid        |-> [r \in 0..num_players |-> [c \in 0..num_players |-> None]],
      move_count  |-> 0 ]

\* Board.__init__
NewBoard(num_players) ==
    [ num_players |-> num_players,
      size        |-> num_players + 1,
      win_length  |-> num_players + 1,
      grid        |-> [r \in 0..num_players |-> [c \in 0..num_players |-> None]],
      move_count  |-> 0 ]

\* is_valid_move without the test that the cell is empty.
is_valid_move_any_cell(b, row, col) ==
    ~(row < 0 \/ row >= b.size \/ col < 0 \/ col >= b.size)

\* Board.is_valid_move
is_valid_move(b, row, col) ==
    IF row < 0 \/ row >= b.size \/ col < 0 \/ col >= b.size
    THEN FALSE
    ELSE b.grid[row][col] = None

\* Board.make_move writing the cell without counting the move.
board_make_move_no_count(b, row, col, symbol) ==
    IF ~is_valid_move(b, row, col)
    THEN [ok |-> FALSE, board |-> b]
    ELSE [ok |-> TRUE, board |-> [b EXCEPT !.grid[row][col] = symbol]]

\* Board.make_move: [ok, board]
board_make_move(b, row, col, symbol) ==
    IF ~is_valid_move(b, row, col)
    THEN [ok |-> FALSE, board |-> b]
    ELSE [ok |-> TRUE,
          board |-> [b EXCEPT !.grid[row][col] = symbol,
                              !.move_count = b.move_count + 1]]

\* The four scan directions of Board.check_winner.
directions == << <<0, 1>>, <<1, 0>>, <<1, 1>>, <<1, -1>> >>

\* One while loop of Board.check_winner: the cells counted from (r, c) on,
\* stepping by (dr, dc), while in bounds and holding symbol.
RECURSIVE count_run(_, _, _, _, _, _)
count_run(b, symbol, r, c, dr, dc) ==
    IF 0 <= r /\ r < b.size /\ 0 <= c /\ c < b.size /\ b.grid[r][c] = symbol
    THEN 1 + count_run(b, symbol, r + dr, c + dc, dr, dc)
    ELSE 0

\* direction_count without the scan in the negative direction.
direction_count_forward(b, row, col, d) ==
    LET symbol == b.grid[row][col]
        dr == directions[d][1]
        dc == directions[d][2]
    IN 1 + count_run(b, symbol, row + dr, col + dc, dr, dc)

\* The count of one direction: the anchor, the positive and the negative scan.
direction_count(b, row, col, d) ==
    LET symbol == b.grid[row][col]
        dr == directions[d][1]
        dc == directions[d][2]
    IN 1 + count_run(b, symbol, row + dr, col + dc, dr, dc)
         + count_run(b, symbol, row - dr, col - dc, 0 - dr, 0 - dc)

\* check_winner looking along the row only.
check_winner_rows_only(b, row, col) ==
    LET symbol == b.grid[row][col] IN
    IF symbol = None THEN None
    ELSE IF direction_count(b, row, col, 1) >= b.win_length
         THEN symbol
         ELSE None

\* Board.check_winner
check_winner(b, row, col) ==
    LET symbol == b.grid[row][col] IN
    IF symbol = None THEN None
    ELSE IF \E d \in 1..Len(directions) : direction_count(b, row, col, d) >= b.win_length
         THEN symbol
         ELSE None

\* Board.is_full
is_full(b) == b.move_count >= b.size * b.size

(***************************************************************************)
(* Player and Game                                                         *)
(***************************************************************************)
\* Player.__init__ (name and socket play no part in the server's logic).
NewPlayer(player_id, symbol) ==
    [player_id |-> player_id, symbol |-> symbol, is_active |-> TRUE]

\* Game.__init__
NewGame(game_id, num_players) ==
    [ game_id              |-> game_id,
      num_players          |-> num_players,
      players              |-> << >>,
      board                |-> NewBoard(num_players),
      current_player_index |-> 0,
      state                |-> WAITING,
      winner               |-> NoPlayer,
      is_draw              |-> FALSE ]

\* "player in self.players": Player.__eq__ compares player_id only.
in_players(g, player_id) ==
    \E i \in 1..Len(g.players) : g.players[i].player_id = player_id

\* The roster position of a player id (the "for p in game.players" searches).
find_player(g, player_id) ==
    IF in_players(g, player_id)
    THEN CHOOSE i \in 1..Len(g.players) :
            /\ g.players[i].player_id = player_id
            /\ \A j \in 1..(i - 1) : g.players[j].player_id # player_id
    ELSE 0

\* The two tests of Game.add_player that make it return False.
add_player_refused(g, player) ==
    Len(g.players) >= g.num_players \/ in_players(g, player.player_id)

\* "self.players.append(player)" of Game.add_player.
add_player_append(g, player) == [g EXCEPT !.players = Append(g.players, player)]

\* An add_player that leaves the game WAITING when the roster is complete.
add_player_start_never(g) == g

\* "if len(self.players) == self.num_players: self.state = PLAYING".
add_player_start(g) ==
    IF Len(g.players) = g.num_players THEN [g EXCEPT !.state = PLAYING] ELSE g

\* Game.add_player: [ok, game]
add_player(g, player) ==
    IF add_player_refused(g, player) THEN [ok |-> FALSE, game |-> g]
    ELSE [ok |-> TRUE, game |-> add_player_start(add_player_append(g, player))]

\* remove_player reopening a game in progress instead of ending it.
remove_player_reopens(g, player_id) ==
    IF ~in_players(g, player_id) THEN [ok |-> FALSE, game |-> g]
    ELSE LET i  == find_player(g, player_id)
             g1 == [g EXCEPT !.players[i].is_active = FALSE]
             g2 == IF g1.state = PLAYING
                   THEN [g1 EXCEPT !.state = WAITING]
                   ELSE g1
         IN [ok |-> TRUE, game |-> g2]

\* remove_player ending the game without marking the player inactive.
remove_player_stays_active(g, player_id) ==
    IF ~in_players(g, player_id) THEN [ok |-> FALSE, game |-> g]
    ELSE [ok |-> TRUE,
          game |-> IF g.state = PLAYING THEN [g EXCEPT !.state = FINISHED] ELSE g]

\* Game.remove_player: [ok, game]
remove_player(g, player_id) ==
    IF ~in_players(g, player_id) THEN [ok |-> FALSE, game |-> g]
    ELSE LET i  == find_player(g, player_id)
             g1 == [g EXCEPT !.players[i].is_active = FALSE]
             g2 == IF g1.state = PLAYING
                   THEN [g1 EXCEPT !.state = FINISHED]
                   ELSE g1
         IN [ok |-> TRUE, game |-> g2]

\* The while loop of Game.get_current_player.
RECURSIVE skip_inactive(_, _)
skip_inactive(g, attempts) ==
    IF attempts < Len(g.players)
    THEN LET player == g.players[g.current_player_index + 1] IN
         IF player.is_active
         THEN [player |-> player.player_id, game |-> g]
         ELSE skip_inactive(
                [g EXCEPT !.current_player_index =
                            (g.current_player_index + 1) % Len(g.players)],
                attempts + 1)
    ELSE [player |-> NoPlayer, game |-> g]

\* Game.get_current_player: [player, game]; the call may advance
\* current_player_index, so the game comes back with it.
get_current_player(g) ==
    IF g.state # PLAYING
    THEN [player |-> NoPlayer, game |-> g]
    ELSE skip_inactive(g, 0)

\* A count of the roster entries, active or not.
get_active_player_count_roster(g) == Len(g.players)

\* Game.get_active_player_count
get_active_player_count(g) ==
    Cardinality({i \in 1..Len(g.players) : g.players[i].is_active})

\* after_move testing for the full board before it tests for a winner.
after_move_draw_first(g, player, row, col) ==
    IF is_full(g.board)
    THEN [g EXCEPT !.is_draw = TRUE, !.state = FINISHED]
    ELSE IF check_winner(g.board, row, col) # None
    THEN [g EXCEPT !.winner = player.player_id, !.state = FINISHED]
    ELSE [g EXCEPT !.current_player_index =
                      (g.current_player_index + 1) % Len(g.players)]

\* after_move leaving the turn with the player who moved.
after_move_keeps_turn(g, player, row, col) ==
    IF check_winner(g.board, row, col) # None
    THEN [g EXCEPT !.winner = player.player_id, !.state = FINISHED]
    ELSE IF is_full(g.board)
    THEN [g EXCEPT !.is_draw = TRUE, !.state = FINISHED]
    ELSE g

\* The tail of Game.make_move once the board took the move: winner, draw,
\* or the turn passes on.
after_move(g, player, row, col) ==
    IF check_winner(g.board, row, col) # None
    THEN [g EXCEPT !.winner = player.player_id, !.state = FINISHED]
    ELSE IF is_full(g.board)
    THEN [g EXCEPT !.is_draw = TRUE, !.state = FINISHED]
    ELSE [g EXCEPT !.current_player_index =
                      (g.current_player_index + 1) % Len(g.players)]

\* Game.make_move: [ok, error, game]
game_make_move(g, player, row, col) ==
    IF g.state # PLAYING
    THEN [ok |-> FALSE, error |-> "Game is not in progress", game |-> g]
    ELSE LET cur == get_current_player(g) IN
         IF cur.player # player.player_id
         THEN [ok |-> FALSE, error |-> "Not your turn", game |-> cur.game]
         ELSE LET mv == board_make_move(cur.game.board, row, col, player.symbol) IN
              IF ~mv.ok
              THEN [ok |-> FALSE, error |-> "Invalid move", game |-> cur.game]
              ELSE [ok |-> TRUE, error |-> None,
                    game |-> after_move([cur.game EXCEPT !.board = mv.board],
                                        player, row, col)]

\* Game.to_dict(include_board=True): [data, game]; it calls
\* get_current_player, so the game comes back too.
to_dict(g) ==
    LET cur == get_current_player(g) IN
    [ data |-> [ game_id              |-> g.game_id,
                 num_players          |-> g.num_players,
                 current_player_count |-> Len(g.players),
                 state                |-> g.state,
                 is_draw              |-> g.is_draw,
                 board                |-> g.board,
                 players              |-> g.players,
                 current_player_index |-> g.current_player_index,
                 current_player_id    |-> cur.player,
                 winner               |-> g.winner ],
      game |-> cur.game ]

(***************************************************************************)
(* GameManager and Server, as operators on the server's data               *)
(*   S = [games, player_to_game, next_game_id, handlers, clients, sent,    *)
(*        notified, wire].                                                 *)
(* games and player_to_game are the two dicts of GameManager; handlers     *)
(* holds every ClientHandler object ever constructed, clients the keys of  *)
(* Server.clients (clients[p] is handlers[p]); sent is the list of         *)
(* messages handed to the sockets, each with the outcome of its sendall.   *)
(***************************************************************************)
\* "del d[k]"
dict_del(d, k) == [x \in (DOMAIN d) \ {k} |-> d[x]]

\* "d[k] = v"
dict_set(d, k, v) == [x \in (DOMAIN d) \cup {k} |-> IF x = k THEN v ELSE d[x]]

\* ClientHandler.__init__ followed by ClientHandler.start: running is True.
\* socket_open is false once the server has closed client_socket; connected
\* is false once the peer's end of the connection is gone.
NewHandler ==
    [running |-> TRUE, socket_open |-> TRUE, connected |-> TRUE,
     current_game_id |-> NoGame, buffer |-> << >>]

\* sendall of ClientHandler.send_message goes through.
can_send(h) == h.socket_open /\ h.connected

\* ClientHandler.send_message: sendall puts the message on the wire, or it
\* raises inside the try (a closed socket, a connection that is gone) and
\* the method returns False; ok is what it returns.
send_message(S, player_id, msg_type, data) ==
    [S EXCEPT !.sent = Append(S.sent,
                 [to |-> player_id, type |-> msg_type, data |-> data,
                  ok |-> can_send(S.handlers[player_id])])]

\* "handler = self.clients.get(player_id); if handler: handler.send_message"
send_if_registered(S, player_id, msg_type, data) ==
    IF player_id \in S.clients
    THEN send_message(S, player_id, msg_type, data)
    ELSE S

\* A _send_error that sends nothing.
send_error_silent(S, player_id, error_message) == S

\* Server._send_error
send_error(S, player_id, error_message) ==
    send_if_registered(S, player_id, "ERROR", [message |-> error_message])

\* The same loop giving up at the first send that fails.
RECURSIVE send_to_roster_aborts(_, _, _, _, _)
send_to_roster_aborts(S, roster, i, msg_type, data) ==
    IF i > Len(roster) THEN S
    ELSE LET S1 == send_if_registered(S, roster[i].player_id, msg_type, data) IN
         IF S1.sent # S.sent /\ ~S1.sent[Len(S1.sent)].ok THEN S1
         ELSE send_to_roster_aborts(S1, roster, i + 1, msg_type, data)

\* The loop of Server._broadcast_to_game over game.players, from roster
\* position i on.
RECURSIVE send_to_roster(_, _, _, _, _)
send_to_roster(S, roster, i, msg_type, data) ==
    IF i > Len(roster) THEN S
    ELSE send_to_roster(
            send_if_registered(S, roster[i].player_id, msg_type, data),
            roster, i + 1, msg_type, data)

\* Server._broadcast_to_game (the caller holds no lock; the body takes
\* clients_lock for the loop).
broadcast_to_game(S, game_id, msg_type, data) ==
    IF game_id \notin DOMAIN S.games THEN S
    ELSE send_to_roster(S, S.games[game_id].players, 1, msg_type, data)

\* Server._broadcast_game_state
broadcast_game_state(S, game_id) ==
    IF game_id \notin DOMAIN S.games THEN S
    ELSE LET td == to_dict(S.games[game_id])
             S1 == [S EXCEPT !.games[game_id] = td.game]
         IN broadcast_to_game(S1, game_id, "GAME_STATE", td.data)

\* GameManager.create_game: the id is fresh.
create_game(S, num_players) ==
    [S EXCEPT !.games = dict_set(S.games, S.next_game_id,
                                 NewGame(S.next_game_id, num_players)),
              !.next_game_id = S.next_game_id + 1]

\* The stale-mapping branch of GameManager.join_game: "ok" to go on (with
\* the mapping released if it was stale), or "Player already in a game".
join_check_mapping(S, player_id) ==
    IF player_id \in DOMAIN S.player_to_game
    THEN LET old_game_id == S.player_to_game[player_id] IN
         IF old_game_id \notin DOMAIN S.games
               \/ S.games[old_game_id].state = FINISHED
         THEN [ok |-> TRUE,
               st |-> [S EXCEPT !.player_to_game = dict_del(S.player_to_game, player_id)]]
         ELSE [ok |-> FALSE, st |-> S]
    ELSE [ok |-> TRUE, st |-> S]

\* GameManager.join_game: [ok, error, st]
join_game(S, game_id, player) ==
    IF game_id \notin DOMAIN S.games
    THEN [ok |-> FALSE, error |-> "Game not found", st |-> S]
    ELSE IF S.games[game_id].state # WAITING
    THEN [ok |-> FALSE, error |-> "Game already started", st |-> S]
    ELSE LET chk == join_check_mapping(S, player.player_id) IN
         IF ~chk.ok
         THEN [ok |-> FALSE, error |-> "Player already in a game", st |-> S]
         ELSE LET add == add_player(chk.st.games[game_id], player) IN
              IF ~add.ok
              THEN [ok |-> FALSE, error |-> "Game is full", st |-> chk.st]
              ELSE [ok |-> TRUE, error |-> None,
                    st |-> [chk.st EXCEPT
                              !.games[game_id] = add.game,
                              !.player_to_game =
                                  dict_set(chk.st.player_to_game,
                                           player.player_id, game_id)]]

\* The loop "for p in game.players: if p.player_id in player_to_game: del"
\* of GameManager._cleanup_game, GameManager.make_move and
\* Server._handle_quit_game.
release_players(p2g, g) ==
    [x \in (DOMAIN p2g) \ {g.players[i].player_id : i \in 1..Len(g.players)}
        |-> p2g[x]]

\* GameManager._cleanup_game
cleanup_game(S, game_id) ==
    IF game_id \in DOMAIN S.games
    THEN [S EXCEPT !.player_to_game = release_players(S.player_to_game, S.games[game_id]),
                   !.games = dict_del(S.games, game_id)]
    ELSE S

\* GameManager.leave_game: [found, game, st]; game is the Game object the
\* method returns (it may no longer be in games).
leave_game(S, player_id) ==
    IF player_id \notin DOMAIN S.player_to_game
    THEN [found |-> FALSE, game |-> NewGame(NoGame, 2), st |-> S]
    ELSE LET game_id == S.player_to_game[player_id] IN
         IF game_id \notin DOMAIN S.games
         THEN [found |-> FALSE, game |-> NewGame(NoGame, 2), st |-> S]
         ELSE LET g == S.games[game_id] IN
              IF ~in_players(g, player_id)
              THEN [found |-> TRUE, game |-> g, st |-> S]
              ELSE LET g1 == remove_player(g, player_id).game
                       S1 == [S EXCEPT
                                !.games[game_id] = g1,
                                !.player_to_game = dict_del(S.player_to_game, player_id)]
                       S2 == IF get_active_player_count(g1) = 0
                             THEN cleanup_game(S1, game_id)
                             ELSE S1
                   IN [found |-> TRUE, game |-> g1, st |-> S2]

\* GameManager.make_move: [ok, error, found, game, st]; found is false
\* when the method returns no game.
make_move(S, player_id, row, col) ==
    IF player_id \notin DOMAIN S.player_to_game
          \/ S.player_to_game[player_id] \notin DOMAIN S.games
    THEN [ok |-> FALSE, error |-> "Not in a game", found |-> FALSE,
          game |-> NewGame(NoGame, 2), st |-> S]
    ELSE LET game_id == S.player_to_game[player_id]
             g == S.games[game_id]
         IN IF ~in_players(g, player_id)
            THEN [ok |-> FALSE, error |-> "Player not found in game", found |-> FALSE,
                  game |-> NewGame(NoGame, 2), st |-> S]
            ELSE LET player == g.players[find_player(g, player_id)]
                     mv == game_make_move(g, player, row, col)
                     S1 == [S EXCEPT !.games[game_id] = mv.game]
                     S2 == IF mv.game.state = FINISHED
                           THEN [S1 EXCEPT !.player_to_game =
                                     release_players(S1.player_to_game, mv.game)]
                           ELSE S1
                 IN [ok |-> mv.ok, error |-> mv.error, found |-> TRUE,
                     game |-> mv.game, st |-> S2]

(***************************************************************************)
(* Server handlers, each as the whole handler run without interruption.    *)
(***************************************************************************)
\* _handle_create_game validating num_players only after the game is made.
handle_create_game_late_check(S, player_id, num_players) ==
    IF num_players < 2 \/ num_players > 10
    THEN send_error(create_game(S, 2), player_id, "Invalid number of players (2-10)")
    ELSE send_if_registered(create_game(S, num_players), player_id, "GAME_CREATED",
                            [game_id |-> S.next_game_id, num_players |-> num_players])

\* Server._handle_create_game
handle_create_game(S, player_id, num_players) ==
    IF num_players < 2 \/ num_players > 10
    THEN send_error(S, player_id, "Invalid number of players (2-10)")
    ELSE send_if_registered(create_game(S, num_players), player_id, "GAME_CREATED",
                            [game_id |-> S.next_game_id, num_players |-> num_players])

\* _handle_join_game announcing PLAYER_JOINED before the snapshot.
handle_join_game_notice_first(S, player_id, game_id) ==
    IF game_id = NoGame THEN send_error(S, player_id, "Game ID required")
    ELSE IF game_id \notin DOMAIN S.games THEN send_error(S, player_id, "Game not found")
    ELSE IF Len(S.games[game_id].players) >= Len(SYMBOLS)
    THEN send_error(S, player_id, "list index out of range")
    ELSE LET symbol == SYMBOLS[Len(S.games[game_id].players) + 1]
             player == NewPlayer(player_id, symbol)
             jn     == join_game(S, game_id, player)
         IN IF ~jn.ok THEN send_error(jn.st, player_id, jn.error)
            ELSE LET S1 == IF player_id \in jn.st.clients
                           THEN send_message(
                                  [jn.st EXCEPT !.handlers[player_id].current_game_id = game_id],
                                  player_id, "GAME_JOINED",
                                  [game_id |-> game_id, player_id |-> player_id,
                                   symbol |-> symbol])
                           ELSE jn.st
                     S2 == broadcast_to_game(S1, game_id, "PLAYER_JOINED", [player |-> player])
                 IN broadcast_game_state(S2, game_id)

\* Server._handle_join_game; game_id = NoGame is a request without game_id.
handle_join_game(S, player_id, game_id) ==
    IF game_id = NoGame THEN send_error(S, player_id, "Game ID required")
    ELSE IF game_id \notin DOMAIN S.games THEN send_error(S, player_id, "Game not found")
    ELSE IF Len(S.games[game_id].players) >= Len(SYMBOLS)
    THEN send_error(S, player_id, "list index out of range")
    ELSE LET symbol == SYMBOLS[Len(S.games[game_id].players) + 1]
             player == NewPlayer(player_id, symbol)
             jn     == join_game(S, game_id, player)
         IN IF ~jn.ok THEN send_error(jn.st, player_id, jn.error)
            ELSE LET S1 == IF player_id \in jn.st.clients
                           THEN send_message(
                                  [jn.st EXCEPT !.handlers[player_id].current_game_id = game_id],
                                  player_id, "GAME_JOINED",
                                  [game_id |-> game_id, player_id |-> player_id,
                                   symbol |-> symbol])
                           ELSE jn.st
                     S2 == broadcast_game_state(S1, game_id)
                 IN broadcast_to_game(S2, game_id, "PLAYER_JOINED", [player |-> player])

\* A GAME_OVER payload that never names the winner.
move_game_over_data_no_winner(g) == [is_draw |-> g.is_draw, winner |-> NoPlayer]

\* The GAME_OVER payload of Server._handle_make_move.
move_game_over_data(g) == [is_draw |-> g.is_draw, winner |-> g.winner]

\* Server._handle_make_move; given is false for a request without row or col.
handle_make_move(S, player_id, given, row, col) ==
    IF ~given THEN send_error(S, player_id, "Row and column required")
    ELSE LET mv == make_move(S, player_id, row, col) IN
         IF ~mv.ok THEN send_error(mv.st, player_id, mv.error)
         ELSE LET S1 == broadcast_game_state(mv.st, mv.game.game_id) IN
              IF mv.game.state = FINISHED
              THEN broadcast_to_game(S1, mv.game.game_id, "GAME_OVER",
                                     move_game_over_data(mv.game))
              ELSE S1

\* The same branches leaving the mappings of an abandoned game in place.
quit_game_over_keeps_mappings(S, g) ==
    LET active_players == get_active_player_count(g) IN
    IF active_players = 0 THEN S
    ELSE IF active_players = 1 /\ g.winner = NoPlayer
    THEN broadcast_to_game(S, g.game_id, "GAME_OVER",
                      [is_draw |-> FALSE, abandoned |-> TRUE,
                       reason |-> "Other players left the game"])
    ELSE IF g.winner # NoPlayer
    THEN LET S1 == broadcast_to_game(S, g.game_id, "GAME_OVER",
                      [is_draw |-> FALSE, winner |-> g.winner])
         IN [S1 EXCEPT !.player_to_game = release_players(S1.player_to_game, g)]
    ELSE S

\* The branches of Server._handle_quit_game under "if game.state.value ==
\* 'FINISHED'": the GAME_OVER broadcast and the release of the mappings.
quit_game_over(S, g) ==
    LET active_players == get_active_player_count(g) IN
    IF active_players = 0 THEN S
    ELSE IF active_players = 1 /\ g.winner = NoPlayer
    THEN LET S1 == broadcast_to_game(S, g.game_id, "GAME_OVER",
                      [is_draw |-> FALSE, abandoned |-> TRUE,
                       reason |-> "Other players left the game"])
         IN [S1 EXCEPT !.player_to_game = release_players(S1.player_to_game, g)]
    ELSE IF g.winner # NoPlayer
    THEN LET S1 == broadcast_to_game(S, g.game_id, "GAME_OVER",
                      [is_draw |-> FALSE, winner |-> g.winner])
         IN [S1 EXCEPT !.player_to_game = release_players(S1.player_to_game, g)]
    ELSE S

\* Server._handle_quit_game
handle_quit_game(S, player_id) ==
    LET lv == leave_game(S, player_id) IN
    IF ~lv.found THEN lv.st
    ELSE LET S1 == IF player_id \in lv.st.clients
                   THEN [lv.st EXCEPT !.handlers[player_id].current_game_id = NoGame]
                   ELSE lv.st
             S2 == broadcast_to_game(S1, lv.game.game_id, "PLAYER_LEFT",
                                     [player_id |-> player_id])
             S3 == broadcast_game_state(S2, lv.game.game_id)
         IN IF lv.game.state = FINISHED THEN quit_game_over(S3, lv.game) ELSE S3

\* ClientHandler.stop on a running handler, up to the callback: running is
\* cleared, the socket closed, and the synthetic DISCONNECT handed to the
\* dispatch callback (counted in notified).
stop_mark(S, player_id) ==
    [S EXCEPT !.handlers[player_id].running = FALSE,
              !.handlers[player_id].socket_open = FALSE,
              !.notified[player_id] = S.notified[player_id] + 1]

\* The critical section of Server._handle_disconnect when the handler it
\* finds is already stopped: handler.stop() returns at once, the entry is
\* deleted.
unregister(S, player_id) ==
    IF player_id \in S.clients
    THEN [S EXCEPT !.clients = S.clients \ {player_id}]
    ELSE S

\* The end of a session that leaves its player in its game.
session_closed_keeps_game(S, player_id) ==
    IF ~S.handlers[player_id].running THEN S
    ELSE unregister(stop_mark(S, player_id), player_id)

\* The end of a session whose peer closed the connection (or whose recv
\* failed), run without interruption: ClientHandler._receive_loop leaves its
\* loop, its finally block calls stop(), which dispatches DISCONNECT to
\* Server._handle_disconnect.
session_closed(S, player_id) ==
    IF ~S.handlers[player_id].running THEN S
    ELSE unregister(handle_quit_game(stop_mark(S, player_id), player_id), player_id)

(***************************************************************************)
(* Protocol and the framing of ClientHandler.  A byte is a string: "LF" is *)
(* the delimiter b'\n', "BSL" a backslash, "SP" a space, "FF" a byte that  *)
(* is not valid UTF-8; "M" and "Q" stand for the text of the "type" member *)
(* of a MAKE_MOVE and a QUIT_GAME message.  The data of a message is the   *)
(* text of its payload, a sequence of the characters "a", "n", "LF", "BSL". *)
(***************************************************************************)
\* Protocol.DELIMITER
DELIMITER == "LF"

\* The member "type" as json.dumps writes it.
type_text(msg_type) == IF msg_type = "MAKE_MOVE" THEN "M" ELSE "Q"

\* json.dumps leaving a line feed inside a string as it is.
RECURSIVE json_escape_raw(_)
json_escape_raw(str) ==
    IF str = << >> THEN << >>
    ELSE (IF Head(str) = "BSL" THEN <<"BSL", "BSL">> ELSE <<Head(str)>>)
         \o json_escape_raw(Tail(str))

\* json.dumps of a string's characters: a line feed is written as the two
\* characters backslash and n, a backslash as two backslashes.
RECURSIVE json_escape(_)
json_escape(str) ==
    IF str = << >> THEN << >>
    ELSE (IF Head(str) = "LF" THEN <<"BSL", "n">>
          ELSE IF Head(str) = "BSL" THEN <<"BSL", "BSL">>
          ELSE <<Head(str)>>)
         \o json_escape(Tail(str))

\* The dict Protocol.encode_message builds; an absent payload and an empty
\* one are both << >> ("data or {}").
message(msg_type, data) == [type |-> msg_type, data |-> data]

\* json.dumps of that dict.
json_dumps(msg) == <<"{", type_text(msg.type)>> \o json_escape(msg.data) \o <<"}">>

\* Protocol.encode_message
encode_message(msg_type, data) == json_dumps(message(msg_type, data)) \o <<DELIMITER>>

\* json.loads of the characters of a string: [ok, str].
RECURSIVE json_unescape(_)
json_unescape(text) ==
    IF text = << >> THEN [ok |-> TRUE, str |-> << >>]
    ELSE IF Head(text) \in {"a", "n"}
    THEN LET rest == json_unescape(Tail(text)) IN
         [ok |-> rest.ok, str |-> <<Head(text)>> \o rest.str]
    ELSE IF Head(text) = "BSL" /\ Len(text) >= 2 /\ text[2] \in {"n", "BSL"}
    THEN LET rest == json_unescape(SubSeq(text, 3, Len(text))) IN
         [ok |-> rest.ok, str |-> <<IF text[2] = "n" THEN "LF" ELSE "BSL">> \o rest.str]
    ELSE [ok |-> FALSE, str |-> << >>]

\* str.strip()
RECURSIVE strip(_)
strip(text) ==
    IF text = << >> THEN text
    ELSE IF Head(text) = "SP" THEN strip(Tail(text))
    ELSE IF text[Len(text)] = "SP" THEN strip(SubSeq(text, 1, Len(text) - 1))
    ELSE text

\* json.loads: a number ("0" or "1"), an object (the empty one "{}", or one
\* with a payload and with or without a member "type"), or JSONDecodeError.
json_loads(text) ==
    IF text = <<"0">> \/ text = <<"1">>
    THEN [kind |-> "number", zero |-> text = <<"0">>]
    ELSE IF Len(text) >= 2 /\ Head(text) = "{" /\ text[Len(text)] = "}"
    THEN LET inner == SubSeq(text, 2, Len(text) - 1)
             typed == inner # << >> /\ Head(inner) \in {"M", "Q"}
             body  == json_unescape(IF typed THEN Tail(inner) ELSE inner)
         IN IF ~body.ok THEN [kind |-> "JSONDecodeError"]
            ELSE [kind |-> "object", empty |-> inner = << >>,
                  type |-> IF ~typed THEN None
                           ELSE IF Head(inner) = "M" THEN "MAKE_MOVE" ELSE "QUIT_GAME",
                  data |-> body.str]
    ELSE [kind |-> "JSONDecodeError"]

\* Protocol.decode_message: the value json.loads gives, or [kind |-> None]
\* when the bytes are not UTF-8 or not JSON.
decode_message(data) ==
    IF \E i \in 1..Len(data) : data[i] = "FF" THEN [kind |-> None]
    ELSE LET value == json_loads(strip(data)) IN
         IF value.kind = "JSONDecodeError" THEN [kind |-> None] ELSE value

\* ClientHandler._process_message: "dropped" (if not message: return),
\* "dispatched" (the callback is called with the message), or "raised"
\* (message.get on a value that is not a dict raises AttributeError, which
\* nothing in the method catches).
process_message(message_bytes) ==
    LET msg == decode_message(message_bytes) IN
    IF msg.kind = None \/ (msg.kind = "number" /\ msg.zero)
          \/ (msg.kind = "object" /\ msg.empty)
    THEN [outcome |-> "dropped"]
    ELSE IF msg.kind # "object" THEN [outcome |-> "raised"]
    ELSE [outcome |-> "dispatched", msg |-> [type |-> msg.type, data |-> msg.data]]

\* The position of the first delimiter of buffer, 0 if it has none.
find_delimiter(buffer) ==
    IF \E i \in 1..Len(buffer) : buffer[i] = DELIMITER
    THEN CHOOSE i \in 1..Len(buffer) :
            buffer[i] = DELIMITER /\ \A j \in 1..(i - 1) : buffer[j] # DELIMITER
    ELSE 0

\* The inner loop of ClientHandler._receive_loop, "while Protocol.DELIMITER
\* in self.buffer": [buffer, dispatched, raised], dispatched being the
\* messages handed to the callback after those of the argument.
RECURSIVE process_frames(_, _)
process_frames(buffer, dispatched) ==
    LET at == find_delimiter(buffer) IN
    IF at = 0 THEN [buffer |-> buffer, dispatched |-> dispatched, raised |-> FALSE]
    ELSE LET rest == SubSeq(buffer, at + 1, Len(buffer))
             res  == process_message(SubSeq(buffer, 1, at - 1))
         IN IF res.outcome = "raised"
            THEN [buffer |-> rest, dispatched |-> dispatched, raised |-> TRUE]
            ELSE process_frames(rest,
                    IF res.outcome = "dispatched" THEN Append(dispatched, res.msg)
                    ELSE dispatched)

(***************************************************************************)
(* State                                                                   *)
(***************************************************************************)
VARIABLES
    games,            \* GameManager.games: game_id -> Game
    player_to_game,   \* GameManager.player_to_game: player_id -> game_id
    next_game_id,     \* the next fresh game id (uuid4 in the code)
    handlers,         \* every ClientHandler constructed: player_id -> handler
    clients,          \* the keys of Server.clients
    next_player_id,   \* the next fresh player id (uuid4 in the code)
    sent,             \* messages handed to the sockets, in order
    notified,         \* player_id -> synthetic DISCONNECTs dispatched for it
    wire,             \* the bytes a client wrote, and what became of them
    server,           \* Server.running and the state of Server.server_socket
    clients_lock,     \* Server.clients_lock: the set of threads holding it
    stack             \* thread -> its call stack, a sequence of frames

data_vars == <<games, player_to_game, next_game_id, handlers, clients, sent, notified,
               wire>>
thread_vars == <<server, clients_lock, stack>>
vars == <<games, player_to_game, next_game_id, handlers, clients, next_player_id,
          sent, notified, wire, server, clients_lock, stack>>

\* No client has written anything: wire holds the frames a client wrote
\* (written), their bytes not yet returned by recv (pending), the messages
\* handed to the dispatch callback (dispatched), and whether some recv
\* ended inside a frame (split).
NoWire == [written |-> << >>, pending |-> << >>, dispatched |-> << >>, split |-> FALSE]

\* The main thread (server/main.py); the receive thread of session p is p.
MainThread == 0
\* The thread Server.start creates for _accept_connections.
AcceptThread == -1
ThreadIds == PlayerIds \cup {MainThread, AcceptThread}

\* The server's data as one record, for the operators above.
St == [ games |-> games, player_to_game |-> player_to_game,
        next_game_id |-> next_game_id, handlers |-> handlers,
        clients |-> clients, sent |-> sent, notified |-> notified, wire |-> wire ]

\* The variables take the fields of S.  obs says whether the step is
\* observed with the messages it sent, or with the registries alone.
Becomes(S, obs) ==
    /\ games' = S.games
    /\ player_to_game' = S.player_to_game
    /\ next_game_id' = S.next_game_id
    /\ handlers' = S.handlers
    /\ clients' = S.clients
    /\ notified' = S.notified
    /\ wire' = S.wire
    /\ sent' = IF obs THEN S.sent ELSE << >>

\* A frame of a call stack: the statement the call is at, the session it is
\* about, and its local variables.
Frame(pc, p) ==
    [ pc |-> pc, p |-> p, gid |-> NoGame, game |-> << >>,
      symbol |-> None, data |-> << >>, todo |-> << >> ]

Top(t) == stack[t][Len(stack[t])]
At(t, pc) == Len(stack[t]) > 0 /\ Top(t).pc = pc
\* A receive thread blocked in recv at the head of its loop.
AtLoop(t) == At(t, "loop")
\* No handler is under way in any thread.
Quiescent == \A t \in ThreadIds : Len(stack[t]) <= 1

\* St at the start of a request: sent holds the messages written since the
\* server was last quiescent.
Fresh == IF Quiescent THEN [St EXCEPT !.sent = << >>] ELSE St

\* Server.__init__ and GameManager.__init__
Init ==
    /\ games = << >>
    /\ player_to_game = << >>
    /\ next_game_id = 1
    /\ handlers = << >>
    /\ clients = {}
    /\ next_player_id = 1
    /\ sent = << >>
    /\ notified = << >>
    /\ wire = NoWire
    /\ server = [running |-> TRUE, socket_open |-> TRUE]
    /\ clients_lock = {}
    /\ stack = [t \in ThreadIds |-> << >>]

(***************************************************************************)
(* Requests handled one at a time: each action is one whole handler, run   *)
(* by the session's receive thread while no other thread is inside one.    *)
(***************************************************************************)
\* Server._accept_connections, one iteration: a fresh player id, a handler
\* registered under it (with clients_lock) and started.
Accept ==
    /\ next_player_id \in PlayerIds
    /\ server.socket_open
    /\ clients_lock = {}
    /\ handlers' = dict_set(handlers, next_player_id, NewHandler)
    /\ notified' = dict_set(notified, next_player_id, 0)
    /\ clients' = clients \cup {next_player_id}
    /\ stack' = [stack EXCEPT ![next_player_id] = <<Frame("loop", next_player_id)>>]
    /\ next_player_id' = next_player_id + 1
    /\ UNCHANGED <<games, player_to_game, next_game_id, sent, wire, server, clients_lock>>

\* A session whose receive thread can come out of recv and run what follows
\* to the end: running, blocked in recv, and nobody holds clients_lock.
Idle(p) ==
    /\ p \in DOMAIN handlers
    /\ handlers[p].running
    /\ AtLoop(p)
    /\ clients_lock = {}

\* A session whose receive thread can take a request from its peer.
Live(p) == Idle(p) /\ handlers[p].connected

CreateGame(p, n, obs) ==
    /\ Live(p)
    /\ n \in 2..10 => next_game_id \in GameIds
    /\ Becomes(handle_create_game(Fresh, p, n), obs)
    /\ UNCHANGED <<next_player_id, thread_vars>>

JoinGame(p, gid, obs) ==
    /\ Live(p)
    /\ Becomes(handle_join_game(Fresh, p, gid), obs)
    /\ UNCHANGED <<next_player_id, thread_vars>>

MakeMove(p, given, row, col, obs) ==
    /\ Live(p)
    /\ Becomes(handle_make_move(Fresh, p, given, row, col), obs)
    /\ UNCHANGED <<next_player_id, thread_vars>>

QuitGame(p, obs) ==
    /\ Live(p)
    /\ Becomes(handle_quit_game(Fresh, p), obs)
    /\ UNCHANGED <<next_player_id, thread_vars>>

\* The peer's end of the connection goes away (a reset, a crash); the
\* server has not read from the socket since.
PeerResets(p) ==
    /\ Live(p)
    /\ handlers' = [handlers EXCEPT ![p].connected = FALSE]
    /\ sent' = Fresh.sent
    /\ UNCHANGED <<games, player_to_game, next_game_id, clients, notified, wire,
                   next_player_id, thread_vars>>

\* recv returns no data or raises (the peer closed the connection, or it
\* was reset); the receive thread ends.
Disconnect(p, obs) ==
    /\ Idle(p)
    /\ Becomes(session_closed(Fresh, p), obs)
    /\ stack' = [stack EXCEPT ![p] = <<Frame("done", p)>>]
    /\ UNCHANGED <<next_player_id, server, clients_lock>>

(***************************************************************************)
(* Spec: every request, rooms of two and three players, each game explored *)
(* up to MaxMoves accepted moves, observed through the registries.         *)
(***************************************************************************)
\* The game of player p has taken fewer than MaxMoves moves (or p has none).
MoveExplored(p) ==
    p \in DOMAIN player_to_game /\ player_to_game[p] \in DOMAIN games
        => games[player_to_game[p]].board.move_count < MaxMoves

\* The game ids JOIN_GAME requests carry: every id in use, none, an unknown one.
JoinIds == GameIds \cup {NoGame, Cardinality(GameIds) + 1}

Next ==
    \/ Accept
    \/ \E p \in PlayerIds, n \in RoomSizes : CreateGame(p, n, FALSE)
    \/ \E p \in PlayerIds, gid \in JoinIds : JoinGame(p, gid, FALSE)
    \/ \E p \in PlayerIds, row \in Coords, col \in Coords :
          MoveExplored(p) /\ MakeMove(p, TRUE, row, col, FALSE)
    \/ \E p \in PlayerIds : MakeMove(p, FALSE, 0, 0, FALSE)
    \/ \E p \in PlayerIds : QuitGame(p, FALSE)
    \/ \E p \in PlayerIds : Disconnect(p, FALSE)

Spec == Init /\ [][Next]_vars

(***************************************************************************)
(* SpecReplies: the requests of Spec in one room, with connections that go *)
(* away, observed with the messages each request hands to the sockets.     *)
(***************************************************************************)
NextReplies ==
    \/ next_player_id \in RoomIds /\ Accept
    \/ \E p \in PlayerIds, n \in RoomSizes : CreateGame(p, n, TRUE)
    \/ \E p \in PlayerIds, gid \in JoinIds : JoinGame(p, gid, TRUE)
    \/ \E p \in PlayerIds, row \in RoomCoords, col \in RoomCoords :
          MoveExplored(p) /\ MakeMove(p, TRUE, row, col, TRUE)
    \/ \E p \in PlayerIds : MakeMove(p, FALSE, 0, 0, TRUE)
    \/ \E p \in PlayerIds : QuitGame(p, TRUE)
    \/ \E p \in PlayerIds : PeerResets(p)
    \/ \E p \in PlayerIds : Disconnect(p, TRUE)

SpecReplies == Init /\ [][NextReplies]_vars

\* The game ids of SpecLobby: two games are created during a behaviour.
LobbyIds == {1, 2}

\* CREATE_GAME while a game id of SpecLobby is left.
CreateInLobby(p, n) ==
    /\ Live(p)
    /\ next_game_id \in LobbyIds
    /\ Becomes(handle_create_game(Fresh, p, n), FALSE)
    /\ UNCHANGED <<next_player_id, thread_vars>>

(***************************************************************************)
(* SpecLobby: two games side by side, rooms of two and three, with the     *)
(* sessions joining, quitting and disconnecting; requests handled one at a *)
(* time, observed through the registries.                                  *)
(***************************************************************************)
NextLobby ==
    \/ Accept
    \/ \E p \in PlayerIds, n \in 2..3 : CreateInLobby(p, n)
    \/ \E p \in PlayerIds, gid \in LobbyIds : JoinGame(p, gid, FALSE)
    \/ \E p \in PlayerIds : QuitGame(p, FALSE)
    \/ \E p \in PlayerIds : Disconnect(p, FALSE)

SpecLobby == Init /\ [][NextLobby]_vars

\* The coordinates MAKE_MOVE requests carry in SpecPlay: every cell of the
\* 3x3 board of a room of two and one value off each edge.
PlayCoords == -1..NewBoard(2).size

(***************************************************************************)
(* SpecPlay: one room of two players played to the end on its 3x3 board,   *)
(* observed through the registries.                                        *)
(***************************************************************************)
NextPlay ==
    \/ Accept
    \/ \E p \in PlayerIds : next_game_id = 1 /\ CreateGame(p, 2, FALSE)
    \/ \E p \in PlayerIds, gid \in JoinIds : JoinGame(p, gid, FALSE)
    \/ \E p \in PlayerIds, row \in PlayCoords, col \in PlayCoords :
          MakeMove(p, TRUE, row, col, FALSE)

SpecPlay == Init /\ [][NextPlay]_vars

(***************************************************************************)
(* SpecBoard: a Board of a room of two, its cells written in any order     *)
(* with either symbol by Board.make_move.                                  *)
(***************************************************************************)
InitBoard ==
    /\ games = dict_set(<< >>, 1, NewGame(1, 2))
    /\ player_to_game = << >>
    /\ next_game_id = 2
    /\ handlers = << >>
    /\ clients = {}
    /\ next_player_id = 1
    /\ sent = << >>
    /\ notified = << >>
    /\ wire = NoWire
    /\ server = [running |-> TRUE, socket_open |-> TRUE]
    /\ clients_lock = {}
    /\ stack = [t \in ThreadIds |-> << >>]

BoardMove(row, col, symbol) ==
    /\ games' = [games EXCEPT ![1].board =
                    board_make_move(games[1].board, row, col, symbol).board]
    /\ UNCHANGED <<player_to_game, next_game_id, handlers, clients, next_player_id,
                   sent, notified, wire, thread_vars>>

NextBoard ==
    \E row \in PlayCoords, col \in PlayCoords, symbol \in {SYMBOLS[1], SYMBOLS[2]} :
        BoardMove(row, col, symbol)

SpecBoard == InitBoard /\ [][NextBoard]_vars

(***************************************************************************)
(* SpecFrames: one session whose client has written one or two frames,     *)
(* each an encoded message or a malformed line; recv returns the bytes in  *)
(* chunks cut anywhere.                                                    *)
(***************************************************************************)
\* The message types and payloads the client encodes.
MsgTypes == {"MAKE_MOVE", "QUIT_GAME"}
Payloads == {<< >>, <<"a">>, <<"LF">>, <<"BSL">>, <<"BSL", "n">>, <<"LF", "a">>}

\* Lines that are not messages: an empty line, a blank one, bytes that are
\* not UTF-8, text that is not JSON, the JSON values 0, 1 and {}, and an
\* object without the member "type".
MalformedBodies ==
    {<< >>, <<"SP">>, <<"FF">>, <<"{">>, <<"0">>, <<"1">>, <<"{", "}">>, <<"{", "a", "}">>}

\* What a client writes as one frame.
FrameChoices ==
    {[valid |-> TRUE, msg |-> message(ty, d), bytes |-> encode_message(ty, d)] :
        ty \in MsgTypes, d \in Payloads}
    \cup {[valid |-> FALSE, msg |-> message(None, << >>), bytes |-> Append(b, DELIMITER)] :
        b \in MalformedBodies}

FrameSeqs == {<<f>> : f \in FrameChoices} \cup {<<f, g>> : f, g \in FrameChoices}

\* The bytes of a sequence of frames.
RECURSIVE Bytes(_)
Bytes(frames) == IF frames = << >> THEN << >> ELSE Head(frames).bytes \o Bytes(Tail(frames))

\* Server._handle_client_message for a message off the wire, whose payload
\* has no row and no column; a message of no known type matches no branch.
dispatch(S, player_id, msg) ==
    IF msg.type = "MAKE_MOVE" THEN handle_make_move(S, player_id, FALSE, 0, 0)
    ELSE IF msg.type = "QUIT_GAME" THEN handle_quit_game(S, player_id)
    ELSE S

RECURSIVE dispatch_all(_, _, _)
dispatch_all(S, player_id, msgs) ==
    IF msgs = << >> THEN S
    ELSE dispatch_all(dispatch(S, player_id, Head(msgs)), player_id, Tail(msgs))

\* The session of player 1 is accepted and its client has written its frames.
InitFrames ==
    /\ games = << >>
    /\ player_to_game = << >>
    /\ next_game_id = 1
    /\ handlers = dict_set(<< >>, 1, NewHandler)
    /\ clients = {1}
    /\ next_player_id = 2
    /\ sent = << >>
    /\ notified = dict_set(<< >>, 1, 0)
    /\ wire \in {[written |-> w, pending |-> Bytes(w), dispatched |-> << >>,
                  split |-> FALSE] : w \in FrameSeqs}
    /\ server = [running |-> TRUE, socket_open |-> TRUE]
    /\ clients_lock = {}
    /\ stack = [t \in ThreadIds |-> IF t = 1 THEN <<Frame("loop", 1)>> ELSE << >>]

\* One iteration of ClientHandler._receive_loop: recv returns the next k
\* bytes, the buffer is extended and its complete frames are processed; an
\* exception out of _process_message ends the loop and the session.
RecvChunk(p, k) ==
    /\ Live(p)
    /\ k \in 1..Len(wire.pending)
    /\ LET res == process_frames(handlers[p].buffer \o SubSeq(wire.pending, 1, k), << >>)
           S1  == [Fresh EXCEPT
                     !.handlers[p].buffer = res.buffer,
                     !.wire = [wire EXCEPT
                                 !.pending = SubSeq(wire.pending, k + 1, Len(wire.pending)),
                                 !.dispatched = wire.dispatched \o res.dispatched,
                                 !.split = wire.split \/ res.buffer # << >>]]
           S2  == dispatch_all(S1, p, res.dispatched)
       IN IF res.raised
          THEN /\ Becomes(session_closed(S2, p), FALSE)
               /\ stack' = [stack EXCEPT ![p] = <<Frame("done", p)>>]
          ELSE /\ Becomes(S2, FALSE)
               /\ UNCHANGED stack
    /\ UNCHANGED <<next_player_id, server, clients_lock>>

NextFrames == \E p \in PlayerIds, k \in 1..Len(wire.pending) : RecvChunk(p, k)

SpecFrames == InitFrames /\ [][NextFrames]_vars

(***************************************************************************)
(* Threads.  The receive thread of every session and the main thread run   *)
(* the same handlers statement by statement: a thread's call stack is a    *)
(* sequence of frames, and each action below is one step of the frame on   *)
(* top.  A step that needs clients_lock waits until nobody holds it: the   *)
(* lock is a threading.Lock, which its own holder cannot take again.       *)
(***************************************************************************)
\* The stack of thread t without its top frame, with its top frame replaced
\* by f, and with its top frame replaced by f and callee called from it.
Popped(t) == SubSeq(stack[t], 1, Len(stack[t]) - 1)
Moved(t, f) == Append(Popped(t), f)
Called(t, f, callee) == Append(Moved(t, f), callee)
Goto(t, pc) == Moved(t, [Top(t) EXCEPT !.pc = pc])
StackTo(t, stk) == stack' = [stack EXCEPT ![t] = stk]

\* The Game object a frame holds in its local variable "game": the object
\* registered under its id, or the one it got if that was since deleted.
Obj(f) == IF f.gid \in DOMAIN games THEN games[f.gid] ELSE f.game

\* Server._broadcast_to_game can go through: it returns before the lock when
\* the game is unknown, and needs clients_lock otherwise.
CanBroadcast(gid) == gid \notin DOMAIN games \/ clients_lock = {}

\* A receive thread that gets a message from its socket.
Receives(t) ==
    /\ t \in DOMAIN handlers
    /\ handlers[t].running
    /\ AtLoop(t)

\* ClientHandler._receive_loop gets a DISCONNECT message from the client
\* and dispatches it: Server._handle_client_message calls _handle_disconnect.
RecvDisconnect(t) ==
    /\ Receives(t)
    /\ StackTo(t, Append(stack[t], Frame("hd_quit", t)))
    /\ UNCHANGED <<data_vars, next_player_id, server, clients_lock>>

\* ClientHandler._receive_loop leaves its loop (the peer closed, recv failed
\* on the closed socket, or running was cleared) and its finally block
\* calls stop().
LoopEnds(t) ==
    /\ AtLoop(t)
    /\ StackTo(t, <<Frame("done", t), Frame("stop_check", t)>>)
    /\ UNCHANGED <<data_vars, next_player_id, server, clients_lock>>

\* ClientHandler.stop, "if not self.running: return".
StopCheck(t) ==
    /\ At(t, "stop_check")
    /\ StackTo(t, IF handlers[Top(t).p].running THEN Goto(t, "stop_set") ELSE Popped(t))
    /\ UNCHANGED <<data_vars, next_player_id, server, clients_lock>>

\* ClientHandler.stop from "self.running = False" to the callback, which
\* dispatches the synthetic DISCONNECT to Server._handle_disconnect.
StopSet(t, obs) ==
    /\ At(t, "stop_set")
    /\ Becomes(stop_mark(St, Top(t).p), obs)
    /\ StackTo(t, Moved(t, Frame("hd_quit", Top(t).p)))
    /\ UNCHANGED <<next_player_id, server, clients_lock>>

\* Server._handle_disconnect calls _handle_quit_game.
HdQuit(t) ==
    /\ At(t, "hd_quit")
    /\ StackTo(t, Called(t, [Top(t) EXCEPT !.pc = "hd_lock"], Frame("q_leave", Top(t).p)))
    /\ UNCHANGED <<data_vars, next_player_id, server, clients_lock>>

\* Server._handle_disconnect, "with self.clients_lock:".
HdLock(t) ==
    /\ At(t, "hd_lock")
    /\ clients_lock = {}
    /\ clients_lock' = {t}
    /\ StackTo(t, Goto(t, "hd_stop"))
    /\ UNCHANGED <<data_vars, next_player_id, server>>

\* Server._handle_disconnect, "if player_id in self.clients:
\* handler.stop()"; the lock is released when the test fails.
HdStop(t) ==
    /\ At(t, "hd_stop")
    /\ IF Top(t).p \in clients
       THEN /\ StackTo(t, Called(t, [Top(t) EXCEPT !.pc = "hd_del"],
                                 Frame("stop_check", Top(t).p)))
            /\ UNCHANGED clients_lock
       ELSE /\ StackTo(t, Popped(t))
            /\ clients_lock' = {}
    /\ UNCHANGED <<data_vars, next_player_id, server>>

\* Server._handle_disconnect, "del self.clients[player_id]" and the end of
\* the with block.
HdDel(t, obs) ==
    /\ At(t, "hd_del")
    /\ Becomes(unregister(St, Top(t).p), obs)
    /\ clients_lock' = {}
    /\ StackTo(t, Popped(t))
    /\ UNCHANGED <<next_player_id, server>>

\* ClientHandler._receive_loop gets QUIT_GAME and dispatches it.
RecvQuit(t) ==
    /\ Receives(t)
    /\ sent' = Fresh.sent
    /\ StackTo(t, Append(stack[t], Frame("q_leave", t)))
    /\ UNCHANGED <<games, player_to_game, next_game_id, handlers, clients, notified,
                   wire, next_player_id, server, clients_lock>>

\* Server._handle_quit_game, from leave_game to "handler.current_game_id =
\* None"; it returns when leave_game gave no game.
QLeave(t, obs) ==
    /\ At(t, "q_leave")
    /\ LET p == Top(t).p
           lv == leave_game(St, p)
       IN IF ~lv.found
          THEN /\ Becomes(lv.st, obs)
               /\ StackTo(t, Popped(t))
          ELSE /\ Becomes(IF p \in lv.st.clients
                          THEN [lv.st EXCEPT !.handlers[p].current_game_id = NoGame]
                          ELSE lv.st, obs)
               /\ StackTo(t, Moved(t, [Top(t) EXCEPT !.pc = "q_left",
                                                     !.gid = lv.game.game_id,
                                                     !.game = lv.game]))
    /\ UNCHANGED <<next_player_id, server, clients_lock>>

\* Server._handle_quit_game broadcasts PLAYER_LEFT, then calls
\* _broadcast_game_state.
QLeft(t, obs) ==
    /\ At(t, "q_left")
    /\ CanBroadcast(Top(t).gid)
    /\ Becomes(broadcast_to_game(St, Top(t).gid, "PLAYER_LEFT", [player_id |-> Top(t).p]), obs)
    /\ StackTo(t, Called(t, [Top(t) EXCEPT !.pc = "q_over"],
                         [Frame("bs_snapshot", Top(t).p) EXCEPT !.gid = Top(t).gid]))
    /\ UNCHANGED <<next_player_id, server, clients_lock>>

\* Server._broadcast_game_state up to game.to_dict(); it returns when the
\* game is unknown.
BsSnapshot(t, obs) ==
    /\ At(t, "bs_snapshot")
    /\ LET gid == Top(t).gid IN
       IF gid \notin DOMAIN games
       THEN /\ StackTo(t, Popped(t))
            /\ Becomes(St, obs)
       ELSE LET td == to_dict(games[gid]) IN
            /\ Becomes([St EXCEPT !.games[gid] = td.game], obs)
            /\ StackTo(t, Moved(t, [Top(t) EXCEPT !.pc = "bs_send", !.data = td.data]))
    /\ UNCHANGED <<next_player_id, server, clients_lock>>

\* Server._broadcast_game_state, the _broadcast_to_game of the snapshot.
BsSend(t, obs) ==
    /\ At(t, "bs_send")
    /\ CanBroadcast(Top(t).gid)
    /\ Becomes(broadcast_to_game(St, Top(t).gid, "GAME_STATE", Top(t).data), obs)
    /\ StackTo(t, Popped(t))
    /\ UNCHANGED <<next_player_id, server, clients_lock>>

\* The branches of Server._handle_quit_game under "if game.state.value ==
\* 'FINISHED'" that broadcast GAME_OVER.
quit_over_sends(g) ==
    g.state = FINISHED /\ get_active_player_count(g) # 0
        /\ (get_active_player_count(g) = 1 \/ g.winner # NoPlayer)

\* Server._handle_quit_game from "if game.state.value == 'FINISHED'" on.
QOver(t, obs) ==
    /\ At(t, "q_over")
    /\ LET g == Obj(Top(t)) IN
       /\ quit_over_sends(g) => CanBroadcast(g.game_id)
       /\ Becomes(IF g.state = FINISHED THEN quit_game_over(St, g) ELSE St, obs)
    /\ StackTo(t, Popped(t))
    /\ UNCHANGED <<next_player_id, server, clients_lock>>

\* ClientHandler._receive_loop gets MAKE_MOVE with a row and a column:
\* Server._handle_make_move up to its call of _broadcast_game_state.
RecvMove(t, row, col, obs) ==
    /\ Receives(t)
    /\ LET mv == make_move(Fresh, t, row, col) IN
       IF ~mv.ok
       THEN /\ Becomes(send_error(mv.st, t, mv.error), obs)
            /\ UNCHANGED stack
       ELSE /\ Becomes(mv.st, obs)
            /\ StackTo(t, stack[t] \o
                    << [Frame("m_over", t) EXCEPT !.gid = mv.game.game_id, !.game = mv.game],
                       [Frame("bs_snapshot", t) EXCEPT !.gid = mv.game.game_id] >>)
    /\ UNCHANGED <<next_player_id, server, clients_lock>>

\* Server._handle_make_move from "if game.state.value == 'FINISHED'" on.
MOver(t, obs) ==
    /\ At(t, "m_over")
    /\ LET g == Obj(Top(t)) IN
       /\ g.state = FINISHED => CanBroadcast(g.game_id)
       /\ Becomes(IF g.state = FINISHED
                  THEN broadcast_to_game(St, g.game_id, "GAME_OVER", move_game_over_data(g))
                  ELSE St, obs)
    /\ StackTo(t, Popped(t))
    /\ UNCHANGED <<next_player_id, server, clients_lock>>

\* S with the Game object of frame f replaced by g, if it is registered.
WithObj(S, f, g) == IF f.gid \in DOMAIN S.games THEN [S EXCEPT !.games[f.gid] = g] ELSE S

\* A handler that sends an error and returns.
Fails(t, error, obs) ==
    /\ Becomes(send_error(St, Top(t).p, error), obs)
    /\ StackTo(t, Popped(t))

\* The same request handled statement by statement.  ClientHandler.
\* _receive_loop gets MAKE_MOVE with a row and a column: Server.
\* _handle_make_move calls GameManager.make_move, which looks up the game
\* and the player and calls Game.make_move; an unknown game or player is
\* answered with an error.
MvRecv(t, row, col, obs) ==
    /\ Receives(t)
    /\ IF t \notin DOMAIN player_to_game \/ player_to_game[t] \notin DOMAIN games
       THEN /\ Becomes(send_error(Fresh, t, "Not in a game"), obs)
            /\ UNCHANGED stack
       ELSE LET g == games[player_to_game[t]] IN
            IF ~in_players(g, t)
            THEN /\ Becomes(send_error(Fresh, t, "Player not found in game"), obs)
                 /\ UNCHANGED stack
            ELSE /\ Becomes(Fresh, obs)
                 /\ StackTo(t, Append(stack[t],
                        [Frame("mv_state", t) EXCEPT
                           !.gid = g.game_id, !.game = g,
                           !.symbol = g.players[find_player(g, t)].symbol,
                           !.data = [row |-> row, col |-> col, ok |-> TRUE,
                                     error |-> None]]))
    /\ UNCHANGED <<next_player_id, server, clients_lock>>

\* The frame of Game.make_move returning (ok, error) to GameManager.make_move.
MvReturns(f, g, ok, error) ==
    [f EXCEPT !.pc = "mv_release", !.game = g, !.data.ok = ok, !.data.error = error]

\* Game.make_move, "if self.state != GameState.PLAYING".
MvState(t) ==
    /\ At(t, "mv_state")
    /\ LET g == Obj(Top(t)) IN
       StackTo(t, IF g.state # PLAYING
                  THEN Moved(t, MvReturns(Top(t), g, FALSE, "Game is not in progress"))
                  ELSE Goto(t, "mv_turn"))
    /\ UNCHANGED <<data_vars, next_player_id, server, clients_lock>>

\* Game.make_move, "current_player = self.get_current_player(); if
\* current_player != player".
MvTurn(t, obs) ==
    /\ At(t, "mv_turn")
    /\ LET cur == get_current_player(Obj(Top(t))) IN
       /\ Becomes(WithObj(St, Top(t), cur.game), obs)
       /\ StackTo(t, IF cur.player # Top(t).p
                     THEN Moved(t, MvReturns(Top(t), cur.game, FALSE, "Not your turn"))
                     ELSE Moved(t, [Top(t) EXCEPT !.pc = "mv_board", !.game = cur.game]))
    /\ UNCHANGED <<next_player_id, server, clients_lock>>

\* Game.make_move, "if not self.board.make_move(row, col, player.symbol)".
MvBoard(t, obs) ==
    /\ At(t, "mv_board")
    /\ LET g == Obj(Top(t))
           mv == board_make_move(g.board, Top(t).data.row, Top(t).data.col, Top(t).symbol)
           g1 == [g EXCEPT !.board = mv.board]
       IN /\ Becomes(WithObj(St, Top(t), g1), obs)
          /\ StackTo(t, IF ~mv.ok
                        THEN Moved(t, MvReturns(Top(t), g1, FALSE, "Invalid move"))
                        ELSE Moved(t, [Top(t) EXCEPT !.pc = "mv_winner", !.game = g1]))
    /\ UNCHANGED <<next_player_id, server, clients_lock>>

\* Game.make_move from "winner_symbol = self.board.check_winner(row, col)"
\* to its return.
MvWinner(t, obs) ==
    /\ At(t, "mv_winner")
    /\ LET g == Obj(Top(t))
           g1 == after_move(g, g.players[find_player(g, Top(t).p)],
                            Top(t).data.row, Top(t).data.col)
       IN /\ Becomes(WithObj(St, Top(t), g1), obs)
          /\ StackTo(t, Moved(t, MvReturns(Top(t), g1, TRUE, None)))
    /\ UNCHANGED <<next_player_id, server, clients_lock>>

\* GameManager.make_move from "if game.state == GameState.FINISHED" to its
\* return, and Server._handle_make_move up to its call of
\* _broadcast_game_state.
MvRelease(t, obs) ==
    /\ At(t, "mv_release")
    /\ LET g == Obj(Top(t))
           S1 == IF g.state = FINISHED
                 THEN [St EXCEPT !.player_to_game = release_players(player_to_game, g)]
                 ELSE St
       IN IF ~Top(t).data.ok
          THEN /\ Becomes(send_error(S1, Top(t).p, Top(t).data.error), obs)
               /\ StackTo(t, Popped(t))
          ELSE /\ Becomes(S1, obs)
               /\ StackTo(t, Popped(t) \o
                      << [Frame("m_over", Top(t).p) EXCEPT !.gid = Top(t).gid, !.game = g],
                         [Frame("bs_snapshot", Top(t).p) EXCEPT !.gid = Top(t).gid] >>)
    /\ UNCHANGED <<next_player_id, server, clients_lock>>

\* ClientHandler._receive_loop gets JOIN_GAME: Server._handle_join_game up
\* to "symbol = Player.SYMBOLS[len(game.players)]".
RecvJoin(t, gid, obs) ==
    /\ Receives(t)
    /\ IF gid = NoGame \/ gid \notin DOMAIN games \/ Len(games[gid].players) >= Len(SYMBOLS)
       THEN /\ Becomes(handle_join_game(Fresh, t, gid), obs)
            /\ UNCHANGED stack
       ELSE /\ Becomes(Fresh, obs)
            /\ StackTo(t, Append(stack[t],
                    [Frame("j_state", t) EXCEPT !.gid = gid, !.game = games[gid],
                        !.symbol = SYMBOLS[Len(games[gid].players) + 1]]))
    /\ UNCHANGED <<next_player_id, server, clients_lock>>

\* GameManager.join_game, the tests "if not game" and "if game.state !=
\* GameState.WAITING".
JState(t, obs) ==
    /\ At(t, "j_state")
    /\ IF Top(t).gid \notin DOMAIN games THEN Fails(t, "Game not found", obs)
       ELSE IF games[Top(t).gid].state # WAITING THEN Fails(t, "Game already started", obs)
       ELSE Becomes(St, obs) /\ StackTo(t, Goto(t, "j_mapping"))
    /\ UNCHANGED <<next_player_id, server, clients_lock>>

\* GameManager.join_game, "if player.player_id in self.player_to_game".
JMapping(t, obs) ==
    /\ At(t, "j_mapping")
    /\ LET chk == join_check_mapping(St, Top(t).p) IN
       IF ~chk.ok THEN Fails(t, "Player already in a game", obs)
       ELSE Becomes(chk.st, obs) /\ StackTo(t, Goto(t, "j_add"))
    /\ UNCHANGED <<next_player_id, server, clients_lock>>

\* Game.add_player, its two tests.
JAdd(t, obs) ==
    /\ At(t, "j_add")
    /\ IF add_player_refused(Obj(Top(t)), NewPlayer(Top(t).p, Top(t).symbol))
       THEN Fails(t, "Game is full", obs)
       ELSE Becomes(St, obs) /\ StackTo(t, Goto(t, "j_append"))
    /\ UNCHANGED <<next_player_id, server, clients_lock>>

\* Game.add_player, "self.players.append(player)".
JAppend(t, obs) ==
    /\ At(t, "j_append")
    /\ LET g == add_player_append(Obj(Top(t)), NewPlayer(Top(t).p, Top(t).symbol)) IN
       /\ Becomes(WithObj(St, Top(t), g), obs)
       /\ StackTo(t, Moved(t, [Top(t) EXCEPT !.pc = "j_start", !.game = g]))
    /\ UNCHANGED <<next_player_id, server, clients_lock>>

\* Game.add_player, "if len(self.players) == self.num_players".
JStart(t, obs) ==
    /\ At(t, "j_start")
    /\ LET g == add_player_start(Obj(Top(t))) IN
       /\ Becomes(WithObj(St, Top(t), g), obs)
       /\ StackTo(t, Moved(t, [Top(t) EXCEPT !.pc = "j_map", !.game = g]))
    /\ UNCHANGED <<next_player_id, server, clients_lock>>

\* GameManager.join_game, "self.player_to_game[player.player_id] = game_id",
\* then Server._handle_join_game up to its call of _broadcast_game_state.
JMap(t, obs) ==
    /\ At(t, "j_map")
    /\ LET p == Top(t).p
           gid == Top(t).gid
           S1 == [St EXCEPT !.player_to_game = dict_set(player_to_game, p, gid)]
       IN Becomes(IF p \in clients
                  THEN send_message([S1 EXCEPT !.handlers[p].current_game_id = gid],
                                    p, "GAME_JOINED",
                                    [game_id |-> gid, player_id |-> p,
                                     symbol |-> Top(t).symbol])
                  ELSE S1, obs)
    /\ StackTo(t, Called(t, [Top(t) EXCEPT !.pc = "j_joined"],
                         [Frame("bs_snapshot", Top(t).p) EXCEPT !.gid = Top(t).gid]))
    /\ UNCHANGED <<next_player_id, server, clients_lock>>

\* Server._handle_join_game, the PLAYER_JOINED broadcast.
JJoined(t, obs) ==
    /\ At(t, "j_joined")
    /\ CanBroadcast(Top(t).gid)
    /\ Becomes(broadcast_to_game(St, Top(t).gid, "PLAYER_JOINED",
                   [player |-> NewPlayer(Top(t).p, Top(t).symbol)]), obs)
    /\ StackTo(t, Popped(t))
    /\ UNCHANGED <<next_player_id, server, clients_lock>>

\* The elements of a set of ids in ascending order: the order of the
\* entries of Server.clients, which are inserted as the ids are drawn.
RECURSIVE ascending(_)
ascending(ids) ==
    IF ids = {} THEN << >>
    ELSE LET lo == CHOOSE x \in ids : \A y \in ids : x <= y
         IN <<lo>> \o ascending(ids \ {lo})

\* main() reaches its finally block: Server.stop, "self.running = False".
ServerStop ==
    /\ stack[MainThread] = << >>
    /\ server.running
    /\ server' = [server EXCEPT !.running = FALSE]
    /\ StackTo(MainThread, <<Frame("s_lock", NoPlayer)>>)
    /\ UNCHANGED <<data_vars, next_player_id, clients_lock>>

\* Server.stop, "with self.clients_lock:" and the list() of the handlers.
SLock ==
    /\ At(MainThread, "s_lock")
    /\ clients_lock = {}
    /\ clients_lock' = {MainThread}
    /\ StackTo(MainThread, Moved(MainThread,
            [Top(MainThread) EXCEPT !.pc = "s_iter", !.todo = ascending(clients)]))
    /\ UNCHANGED <<data_vars, next_player_id, server>>

\* Server.stop, one iteration of "for handler in ...: handler.stop()", or
\* after the last one "self.clients.clear()" and the end of the with block.
SIter(obs) ==
    /\ At(MainThread, "s_iter")
    /\ LET f == Top(MainThread) IN
       IF f.todo # << >>
       THEN /\ StackTo(MainThread, Called(MainThread, [f EXCEPT !.todo = Tail(f.todo)],
                                          Frame("stop_check", Head(f.todo))))
            /\ Becomes(St, obs)
            /\ UNCHANGED clients_lock
       ELSE /\ StackTo(MainThread, Goto(MainThread, "s_close"))
            /\ Becomes([St EXCEPT !.clients = {}], obs)
            /\ clients_lock' = {}
    /\ UNCHANGED <<next_player_id, server>>

\* Server.stop, "self.server_socket.close()".
SClose ==
    /\ At(MainThread, "s_close")
    /\ server' = [server EXCEPT !.socket_open = FALSE]
    /\ StackTo(MainThread, <<Frame("done", NoPlayer)>>)
    /\ UNCHANGED <<data_vars, next_player_id, clients_lock>>

\* ClientHandler.start, its effect on the handler: "self.running = True"
\* (there is no test of running before it); the thread it creates is added
\* by the action that calls it.
start(S, player_id) == [S EXCEPT !.handlers[player_id].running = TRUE]

\* The thread ids left for further threads when the sessions are RoomIds.
SpareThreads == PlayerIds \ RoomIds

\* start() is called on the handler of session p, which is already
\* running: a new thread t begins _receive_loop on the same handler.
StartAgain(p, t) ==
    /\ p \in DOMAIN handlers
    /\ handlers[p].running
    /\ t \in SpareThreads
    /\ stack[t] = << >>
    /\ Becomes(start(St, p), FALSE)
    /\ StackTo(t, <<Frame("loop", p)>>)
    /\ UNCHANGED <<next_player_id, server, clients_lock>>

(***************************************************************************)
(* SpecStart: two sessions making their requests one at a time (moves on   *)
(* the cells of RoomCoords), and calls of start() on a session that is    *)
(* already running.                                                        *)
(***************************************************************************)
NextStart ==
    \/ next_player_id \in RoomIds /\ Accept
    \/ \E p \in PlayerIds, n \in RoomSizes : CreateGame(p, n, FALSE)
    \/ \E p \in PlayerIds, gid \in JoinIds : JoinGame(p, gid, FALSE)
    \/ \E p \in PlayerIds, row \in RoomCoords, col \in RoomCoords :
          MoveExplored(p) /\ MakeMove(p, TRUE, row, col, FALSE)
    \/ \E p \in PlayerIds : QuitGame(p, FALSE)
    \/ \E p \in PlayerIds, t \in ThreadIds : StartAgain(p, t)

SpecStart == Init /\ [][NextStart]_vars

(***************************************************************************)
(* SpecSessions: sessions that end (a DISCONNECT message, a closed         *)
(* connection) and the shutdown of the server, thread by thread, with one  *)
(* room of two; observed through the registries.                           *)
(***************************************************************************)
NextSessions ==
    \/ next_player_id \in RoomIds /\ Accept
    \/ \E p \in PlayerIds : next_game_id = 1 /\ CreateGame(p, 2, FALSE)
    \/ \E p \in PlayerIds, gid \in GameIds : JoinGame(p, gid, FALSE)
    \/ \E t \in PlayerIds : RecvDisconnect(t)
    \/ \E t \in PlayerIds : LoopEnds(t)
    \/ \E t \in ThreadIds : StopCheck(t)
    \/ \E t \in ThreadIds : StopSet(t, FALSE)
    \/ \E t \in ThreadIds : HdQuit(t)
    \/ \E t \in ThreadIds : HdLock(t)
    \/ \E t \in ThreadIds : HdStop(t)
    \/ \E t \in ThreadIds : HdDel(t, FALSE)
    \/ \E t \in ThreadIds : QLeave(t, FALSE)
    \/ \E t \in ThreadIds : QLeft(t, FALSE)
    \/ \E t \in ThreadIds : BsSnapshot(t, FALSE)
    \/ \E t \in ThreadIds : BsSend(t, FALSE)
    \/ \E t \in ThreadIds : QOver(t, FALSE)
    \/ ServerStop
    \/ SLock
    \/ SIter(FALSE)
    \/ SClose

SpecSessions == Init /\ [][NextSessions]_vars

(***************************************************************************)
(* SpecJoin: JOIN_GAME requests of different sessions for one room of two, *)
(* handled statement by statement by their receive threads.                *)
(***************************************************************************)
NextJoin ==
    \/ Accept
    \/ \E p \in PlayerIds : next_game_id = 1 /\ CreateGame(p, 2, FALSE)
    \/ \E t \in PlayerIds, gid \in GameIds : RecvJoin(t, gid, FALSE)
    \/ \E t \in PlayerIds : JState(t, FALSE)
    \/ \E t \in PlayerIds : JMapping(t, FALSE)
    \/ \E t \in PlayerIds : JAdd(t, FALSE)
    \/ \E t \in PlayerIds : JAppend(t, FALSE)
    \/ \E t \in PlayerIds : JStart(t, FALSE)
    \/ \E t \in PlayerIds : JMap(t, FALSE)
    \/ \E t \in PlayerIds : BsSnapshot(t, FALSE)
    \/ \E t \in PlayerIds : BsSend(t, FALSE)
    \/ \E t \in PlayerIds : JJoined(t, FALSE)

SpecJoin == Init /\ [][NextJoin]_vars

(***************************************************************************)
(* SpecRoom: moves and quits in one room of two, handled statement by      *)
(* statement by the receive threads; sent holds what was written to the    *)
(* sockets since no handler was under way, up to MaxSent messages.         *)
(***************************************************************************)
NextRoom ==
    \/ next_player_id \in RoomIds /\ Accept
    \/ \E p \in PlayerIds : Quiescent /\ next_game_id = 1 /\ CreateGame(p, 2, FALSE)
    \/ \E p \in PlayerIds, gid \in GameIds : Quiescent /\ JoinGame(p, gid, FALSE)
    \/ \E t \in PlayerIds, row \in RoomCoords, col \in RoomCoords :
          MoveExplored(t) /\ Len(Fresh.sent) < MaxSent /\ RecvMove(t, row, col, TRUE)
    \/ \E t \in PlayerIds : Len(Fresh.sent) < MaxSent /\ RecvQuit(t)
    \/ \E t \in PlayerIds : QLeave(t, TRUE)
    \/ \E t \in PlayerIds : QLeft(t, TRUE)
    \/ \E t \in PlayerIds : BsSnapshot(t, TRUE)
    \/ \E t \in PlayerIds : BsSend(t, TRUE)
    \/ \E t \in PlayerIds : QOver(t, TRUE)
    \/ \E t \in PlayerIds : MOver(t, TRUE)

SpecRoom == Init /\ [][NextRoom]_vars

\* Server._accept_connections, one iteration up to "with self.clients_lock":
\* a fresh player id and a ClientHandler for it, not yet started.
AcceptConn ==
    /\ next_player_id \in PlayerIds
    /\ server.socket_open
    /\ stack[AcceptThread] = << >>
    /\ handlers' = dict_set(handlers, next_player_id, [NewHandler EXCEPT !.running = FALSE])
    /\ notified' = dict_set(notified, next_player_id, 0)
    /\ StackTo(AcceptThread, <<Frame("a_lock", next_player_id)>>)
    /\ next_player_id' = next_player_id + 1
    /\ UNCHANGED <<games, player_to_game, next_game_id, clients, sent, wire, server,
                   clients_lock>>

\* Server._accept_connections, "with self.clients_lock: self.clients[
\* player_id] = handler" and "handler.start()".
AcceptRegister ==
    /\ At(AcceptThread, "a_lock")
    /\ clients_lock = {}
    /\ LET p == Top(AcceptThread).p IN
       /\ Becomes(start([St EXCEPT !.clients = clients \cup {p}], p), FALSE)
       /\ stack' = [stack EXCEPT ![AcceptThread] = << >>, ![p] = <<Frame("loop", p)>>]
    /\ UNCHANGED <<next_player_id, server, clients_lock>>

\* The sessions a broadcast to game gid writes to: the roster members with
\* a registered handler whose socket takes the write.
Recipients(gid) ==
    {m \in clients : in_players(games[gid], m) /\ can_send(handlers[m])}

\* Thread t is in the loop of Server._broadcast_to_game, holding
\* clients_lock, and sendall on the socket of session m does not return:
\* the peer has stopped reading and the socket has no timeout.  The
\* broadcasts followed are PLAYER_LEFT and GAME_STATE of a quit.
SendStalls(t, m) ==
    /\ At(t, "q_left") \/ At(t, "bs_send")
    /\ Top(t).gid \in DOMAIN games
    /\ clients_lock = {}
    /\ m \in Recipients(Top(t).gid)
    /\ clients_lock' = {t}
    /\ StackTo(t, Append(stack[t], Frame("sendall", m)))
    /\ UNCHANGED <<data_vars, next_player_id, server>>

\* The peer reads again: sendall returns, the loop ends, the lock is
\* released and the caller of _broadcast_to_game goes on.
SendResumes(t) ==
    /\ At(t, "sendall")
    /\ clients_lock' = clients_lock \ {t}
    /\ LET stk == Popped(t)
           f == stk[Len(stk)]
           rest == SubSeq(stk, 1, Len(stk) - 1)
       IN StackTo(t, IF f.pc = "q_left"
                     THEN rest \o << [f EXCEPT !.pc = "q_over"],
                                     [Frame("bs_snapshot", f.p) EXCEPT !.gid = f.gid] >>
                     ELSE rest)
    /\ UNCHANGED <<data_vars, next_player_id, server>>

(***************************************************************************)
(* SpecStall: connections accepted in two steps by the accept thread, one  *)
(* room of two, quits handled statement by statement, and sends of a       *)
(* broadcast that block; observed through the registries.                  *)
(***************************************************************************)
NextStall ==
    \/ AcceptConn
    \/ AcceptRegister
    \/ \E p \in PlayerIds : Quiescent /\ next_game_id = 1 /\ CreateGame(p, 2, FALSE)
    \/ \E p \in PlayerIds, gid \in GameIds : Quiescent /\ JoinGame(p, gid, FALSE)
    \/ \E t \in PlayerIds : RecvQuit(t)
    \/ \E t \in PlayerIds : QLeave(t, FALSE)
    \/ \E t \in PlayerIds : QLeft(t, FALSE)
    \/ \E t \in PlayerIds : BsSnapshot(t, FALSE)
    \/ \E t \in PlayerIds : BsSend(t, FALSE)
    \/ \E t \in PlayerIds : QOver(t, FALSE)
    \/ \E t \in PlayerIds, m \in PlayerIds : SendStalls(t, m)
    \/ \E t \in PlayerIds : SendResumes(t)

SpecStall == Init /\ [][NextStall]_vars

(***************************************************************************)
(* SpecRace: SpecRoom with MAKE_MOVE handled statement by statement too,   *)
(* so that a move and a quit of the same game interleave inside            *)
(* Game.make_move.                                                         *)
(***************************************************************************)
NextRace ==
    \/ next_player_id \in RoomIds /\ Accept
    \/ \E p \in PlayerIds : Quiescent /\ next_game_id = 1 /\ CreateGame(p, 2, FALSE)
    \/ \E p \in PlayerIds, gid \in GameIds : Quiescent /\ JoinGame(p, gid, FALSE)
    \/ \E t \in PlayerIds, row \in RoomCoords, col \in RoomCoords :
          MoveExplored(t) /\ Len(Fresh.sent) < MaxSent /\ MvRecv(t, row, col, TRUE)
    \/ \E t \in PlayerIds : MvState(t)
    \/ \E t \in PlayerIds : MvTurn(t, TRUE)
    \/ \E t \in PlayerIds : MvBoard(t, TRUE)
    \/ \E t \in PlayerIds : MvWinner(t, TRUE)
    \/ \E t \in PlayerIds : MvRelease(t, TRUE)
    \/ \E t \in PlayerIds : Len(Fresh.sent) < MaxSent /\ RecvQuit(t)
    \/ \E t \in PlayerIds : QLeave(t, TRUE)
    \/ \E t \in PlayerIds : QLeft(t, TRUE)
    \/ \E t \in PlayerIds : BsSnapshot(t, TRUE)
    \/ \E t \in PlayerIds : BsSend(t, TRUE)
    \/ \E t \in PlayerIds : QOver(t, TRUE)
    \/ \E t \in PlayerIds : MOver(t, TRUE)

SpecRace == Init /\ [][NextRace]_vars

(***************************************************************************)
(* Properties                                                              *)
(***************************************************************************)
\* (row, col) is a cell of board b.
InBounds(b, row, col) == row \in 0..(b.size - 1) /\ col \in 0..(b.size - 1)

\* Some window of win_length cells in a line, all holding symbol, contains
\* the cell (row, col): k is the place of (row, col) in the window.
RunThrough(b, row, col, symbol) ==
    \E d \in 1..Len(directions), k \in 0..(b.win_length - 1) :
        \A j \in 0..(b.win_length - 1) :
            LET r == row + (j - k) * directions[d][1]
                c == col + (j - k) * directions[d][2]
            IN InBounds(b, r, c) /\ b.grid[r][c] = symbol

\* Some complete line of win_length cells of one symbol lies on board b.
HasLine(b) ==
    \E row \in 0..(b.size - 1), col \in 0..(b.size - 1) :
        b.grid[row][col] # None /\ RunThrough(b, row, col, b.grid[row][col])

\* The player whose turn it is: the first active roster entry at the
\* circular positions current_player_index, current_player_index + 1, ...
TurnOf(g) ==
    LET n == Len(g.players)
        at(k) == g.players[((g.current_player_index + k) % n) + 1]
        ks == {k \in 0..(n - 1) : at(k).is_active}
    IN IF g.state # PLAYING \/ ks = {} THEN NoPlayer
       ELSE at(CHOOSE k \in ks : \A m \in ks : k <= m).player_id

\* The roster entry of player p in game g, or a player object of that id
\* that is in no roster.
PlayerObject(g, p) ==
    IF in_players(g, p) THEN g.players[find_player(g, p)] ELSE NewPlayer(p, SYMBOLS[1])

\* The coordinates tried on board b: its cells, one value off each edge, and
\* row 5 of the spec's example.
TryCoords(b) == (-1..b.size) \cup {5}

\* C1: Game.make_move(player, row, col) is accepted iff the game is PLAYING,
\* the player is the current player and (row, col) is in bounds and empty;
\* a rejected call leaves grid, move_count, winner, is_draw, state and the
\* identity of the current player unchanged.
C1_MoveAcceptedIff ==
    \A gid \in DOMAIN games : \A p \in PlayerIds :
      LET g == games[gid] IN
      \A row \in TryCoords(g.board), col \in TryCoords(g.board) :
        LET res == game_make_move(g, PlayerObject(g, p), row, col) IN
        /\ res.ok <=> /\ g.state = PLAYING
                      /\ TurnOf(g) = p
                      /\ InBounds(g.board, row, col)
                      /\ g.board.grid[row][col] = None
        /\ ~res.ok =>
              /\ res.error \in {"Game is not in progress", "Not your turn", "Invalid move"}
              /\ res.game.board = g.board
              /\ res.game.winner = g.winner
              /\ res.game.is_draw = g.is_draw
              /\ res.game.state = g.state
              /\ TurnOf(res.game) = TurnOf(g)

\* C1 witness: a game in progress that has taken a move and has a departed
\* roster member, so that calls are rejected for every reason (an occupied
\* cell, a player out of turn, an inactive player) and one is accepted.
C1_Witness ==
    \E gid \in DOMAIN games :
        /\ games[gid].state = PLAYING
        /\ games[gid].board.move_count >= 1
        /\ \E i \in 1..Len(games[gid].players) : ~games[gid].players[i].is_active

\* C2: on every board, for every occupied cell (r, c) holding s,
\* check_winner(r, c) returns s exactly when a run of win_length cells of s
\* in one of the four directions passes through (r, c), wherever in the run
\* (r, c) lies; it returns none otherwise and for an empty cell.
C2_CheckWinner ==
    \A gid \in DOMAIN games :
      LET b == games[gid].board IN
      \A row \in 0..(b.size - 1), col \in 0..(b.size - 1) :
        check_winner(b, row, col) =
            IF b.grid[row][col] # None /\ RunThrough(b, row, col, b.grid[row][col])
            THEN b.grid[row][col]
            ELSE None

\* C2 witness: a board with the anti-diagonal held by O, found from its
\* middle cell and from both ends, beside a run of two X that wins nothing.
C2_Witness ==
    /\ 1 \in DOMAIN games
    /\ LET b == games[1].board IN
       /\ b.grid[0][2] = SYMBOLS[2] /\ b.grid[1][1] = SYMBOLS[2] /\ b.grid[2][0] = SYMBOLS[2]
       /\ b.grid[0][0] = SYMBOLS[1] /\ b.grid[0][1] = SYMBOLS[1]
       /\ check_winner(b, 1, 1) = SYMBOLS[2]
       /\ check_winner(b, 0, 2) = SYMBOLS[2]
       /\ check_winner(b, 2, 0) = SYMBOLS[2]
       /\ check_winner(b, 0, 0) = None

\* C3: winner and is_draw never hold together; a full board with a complete
\* line is a win, and is_draw is set only on a full board without one.
C3_WinOrDraw ==
    \A gid \in DOMAIN games :
      LET g == games[gid] IN
      /\ ~(g.winner # NoPlayer /\ g.is_draw)
      /\ (g.board.move_count = g.board.size * g.board.size /\ HasLine(g.board))
            => (g.winner # NoPlayer /\ ~g.is_draw)
      /\ g.is_draw => (g.board.move_count = g.board.size * g.board.size
                        /\ ~HasLine(g.board))

\* C3 witness: a game won by the move that filled the last empty cell.
C3_Witness ==
    \E gid \in DOMAIN games :
        /\ games[gid].winner # NoPlayer
        /\ games[gid].board.move_count = games[gid].board.size * games[gid].board.size

StateRank(st) == IF st = WAITING THEN 0 ELSE IF st = PLAYING THEN 1 ELSE 2

\* C4: a game's state only moves forward along WAITING, PLAYING, FINISHED,
\* and a FINISHED game never changes state again.
C4_StateForward ==
    [][\A gid \in (DOMAIN games) \cap (DOMAIN games') :
          /\ StateRank(games[gid].state) <= StateRank(games'[gid].state)
          /\ games[gid].state = FINISHED => games'[gid].state = FINISHED]_vars

\* C4 witness: a game that was played and is FINISHED while a roster member
\* is still active.
C4_Witness ==
    \E gid \in DOMAIN games :
        /\ games[gid].state = FINISHED
        /\ games[gid].board.move_count >= 1
        /\ get_active_player_count(games[gid]) >= 1

\* C5: once a request has left a game FINISHED, no member of its roster is
\* mapped to it in player_to_game.
C5_FinishedReleasesAll ==
    \A gid \in DOMAIN games :
        games[gid].state = FINISHED =>
            \A i \in 1..Len(games[gid].players) :
                LET p == games[gid].players[i].player_id IN
                ~(p \in DOMAIN player_to_game /\ player_to_game[p] = gid)

\* Thread t is at a statement that takes clients_lock.
WaitsForLock(t) ==
    \/ At(t, "hd_lock")
    \/ At(t, "s_lock")
    \/ (At(t, "q_left") \/ At(t, "bs_send") \/ At(t, "j_joined")) /\ Top(t).gid \in DOMAIN games
    \/ At(t, "q_over") /\ quit_over_sends(Obj(Top(t))) /\ Top(t).gid \in DOMAIN games
    \/ At(t, "m_over") /\ Obj(Top(t)).state = FINISHED /\ Top(t).gid \in DOMAIN games

\* C6: a receive thread that handles a DISCONNECT message of its client
\* never comes to wait for clients_lock while it holds the lock itself, a
\* wait that cannot end and leaves the lock taken for good.
C6_DisconnectCompletes ==
    \A t \in PlayerIds :
        (Len(stack[t]) > 1 /\ stack[t][1].pc = "loop" /\ t \in clients_lock)
            => ~WaitsForLock(t)

\* C7: the main thread inside Server.stop never comes to wait for
\* clients_lock while it holds the lock itself, a wait that cannot end.
C7_ServerStopTerminates ==
    MainThread \in clients_lock => ~WaitsForLock(MainThread)

\* C8: the dispatch callback gets the synthetic DISCONNECT of a session at
\* most once.
C8_NotifiedOnce ==
    \A p \in DOMAIN notified : notified[p] <= 1

\* A JOIN_GAME request for game gid is under way in some thread.
Joining(gid) ==
    \E t \in PlayerIds : \E i \in 1..Len(stack[t]) :
        stack[t][i].gid = gid /\ stack[t][i].pc \in {"j_state", "j_mapping", "j_add",
                                                      "j_append", "j_start", "j_map"}

\* C9: under concurrent JOIN_GAME requests the roster of a game never
\* exceeds num_players, no two members have the same symbol, and a game
\* whose roster is full is no longer WAITING once the joins have returned.
C9_JoinsSerializable ==
    \A gid \in DOMAIN games :
        LET g == games[gid] IN
        /\ Len(g.players) <= g.num_players
        /\ \A i, j \in 1..Len(g.players) :
              i # j => g.players[i].symbol # g.players[j].symbol
        /\ (Len(g.players) >= g.num_players /\ ~Joining(gid)) => g.state # WAITING

\* The GAME_STATE snapshots session p was sent, in order.
SnapshotsTo(p) ==
    SelectSeq(sent, LAMBDA m : m.to = p /\ m.type = "GAME_STATE" /\ m.ok)

\* Snapshot a of a game is no newer than snapshot b: every change a game
\* goes through adds moves, moves its state forward, adds roster entries or
\* makes members inactive.
NoNewer(a, b) ==
    /\ a.board.move_count <= b.board.move_count
    /\ StateRank(a.state) <= StateRank(b.state)
    /\ Len(a.players) <= Len(b.players)
    /\ \A i \in 1..Len(a.players) : b.players[i].is_active => a.players[i].is_active

\* C10: no session is sent an older GAME_STATE snapshot of its room after a
\* newer one.
C10_SnapshotsInOrder ==
    \A p \in PlayerIds :
        LET s == SnapshotsTo(p) IN
        \A i, j \in 1..Len(s) :
            (i < j /\ s[i].data.game_id = s[j].data.game_id) => NoNewer(s[i].data, s[j].data)

\* The messages Server._broadcast_to_game sends to a room.
RoomBroadcasts == {"PLAYER_LEFT", "PLAYER_JOINED", "GAME_STATE", "GAME_OVER"}

\* C11: every room broadcast a request delivered went to a player who is an
\* active member of a room's roster when the request is done; a player who
\* quit the room is sent none of its broadcasts.
C11_BroadcastToMembers ==
    \A i \in 1..Len(sent) :
        (sent[i].type \in RoomBroadcasts /\ sent[i].ok) =>
            \E gid \in DOMAIN games :
                /\ in_players(games[gid], sent[i].to)
                /\ PlayerObject(games[gid], sent[i].to).is_active

\* The bytes recv has returned so far, as a count.
Received == Len(Bytes(wire.written)) - Len(wire.pending)

\* The number of written frames recv has returned whole.
FramesIn ==
    Cardinality({i \in 1..Len(wire.written) :
                    Len(Bytes(SubSeq(wire.written, 1, i))) <= Received})

\* The messages a sequence of frames carries, in order.
RECURSIVE Messages(_)
Messages(frames) ==
    IF frames = << >> THEN << >>
    ELSE (IF Head(frames).valid THEN <<Head(frames).msg>> ELSE << >>)
         \o Messages(Tail(frames))

\* C12: whatever lines the client wrote, the session is still registered
\* and running with no DISCONNECT dispatched, and the typed messages handed
\* to the dispatch callback are those of the well-formed frames received so
\* far; a malformed frame neither ends the session nor hides what follows.
C12_MalformedDropped ==
    \A p \in clients \cup {1} :
        /\ p \in clients
        /\ handlers[p].running
        /\ notified[p] = 0
        /\ SelectSeq(wire.dispatched, LAMBDA m : m.type # None)
              = Messages(SubSeq(wire.written, 1, FramesIn))

C14_FullOnlyAtCapacity ==
    \A i \in 1..Len(sent) :
        (sent[i].type = "ERROR" /\ sent[i].data.message = "Game is full") =>
            \E gid \in DOMAIN games :
                Len(games[gid].players) >= games[gid].num_players

\* Player p is mapped to a game that is registered and not FINISHED.
InActiveGame(p) ==
    /\ p \in DOMAIN player_to_game
    /\ player_to_game[p] \in DOMAIN games
    /\ games[player_to_game[p]].state # FINISHED

\* C15: a JOIN_GAME for a WAITING game with free capacity, from a session
\* whose player is in no game that is still open, succeeds.
C15_JoinFreeSucceeds ==
    \A p \in PlayerIds, gid \in DOMAIN games :
        (/\ Live(p)
         /\ games[gid].state = WAITING
         /\ Len(games[gid].players) < games[gid].num_players
         /\ ~InActiveGame(p))
        => join_game(St, gid, NewPlayer(p, SYMBOLS[Len(games[gid].players) + 1])).ok

\* The messages of sent delivered to session p, in order.
DeliveredTo(p, msgs) == SelectSeq(msgs, LAMBDA m : m.to = p /\ m.ok)

\* C16: when a member of a PLAYING room of two with no winner quits or
\* disconnects, the game becomes FINISHED with no winner and no draw, the
\* survivor's session is delivered PLAYER_LEFT, GAME_STATE and GAME_OVER
\* (abandoned, with its reason) in that order, and neither player is left
\* in player_to_game.
C16_Abandoned ==
    [][\A gid \in (DOMAIN games) \cap (DOMAIN games'), leaver \in 1..2 :
          LET g == games[gid]
              h == games'[gid]
              survivor == g.players[3 - leaver].player_id
          IN (/\ g.num_players = 2
              /\ g.state = PLAYING
              /\ g.winner = NoPlayer
              /\ g.players[1].is_active /\ g.players[2].is_active
              /\ ~h.players[leaver].is_active
              /\ survivor \in clients /\ can_send(handlers[survivor]))
             => /\ h.state = FINISHED
                /\ h.winner = NoPlayer
                /\ ~h.is_draw
                /\ h.players[3 - leaver].is_active
                /\ LET got == DeliveredTo(survivor, sent') IN
                   /\ [i \in 1..Len(got) |-> got[i].type]
                         = <<"PLAYER_LEFT", "GAME_STATE", "GAME_OVER">>
                   /\ got[1].data.player_id = g.players[leaver].player_id
                   /\ got[2].data.state = FINISHED
                   /\ got[3].data = [is_draw |-> FALSE, abandoned |-> TRUE,
                                     reason |-> "Other players left the game"]
                /\ \A i \in 1..2 : g.players[i].player_id \notin DOMAIN player_to_game'
      ]_vars

\* C16 witness: a finished room of two without a winner, one member gone,
\* whose survivor has just been delivered the GAME_OVER of the abandonment.
C16_Witness ==
    \E gid \in DOMAIN games : \E i \in 1..2 :
        /\ games[gid].num_players = 2
        /\ games[gid].state = FINISHED
        /\ games[gid].winner = NoPlayer
        /\ games[gid].board.move_count >= 1
        /\ ~games[gid].players[i].is_active
        /\ games[gid].players[3 - i].is_active
        /\ LET got == DeliveredTo(games[gid].players[3 - i].player_id, sent) IN
           Len(got) = 3 /\ got[3].type = "GAME_OVER" /\ got[3].data.abandoned

\* C17: a step that ends a session on a peer close or read error leaves
\* games, player_to_game and the session table as QUIT_GAME from that
\* player followed by the removal of the session would: the player is
\* unmapped and inactive in its game, a PLAYING game is FINISHED, a game
\* without active players is deleted, the session is out of the table.
C17_CloseIsQuit ==
    [][\A p \in clients \ clients' :
          LET q == unregister(handle_quit_game(Fresh, p), p) IN
          /\ games' = q.games
          /\ player_to_game' = q.player_to_game
          /\ clients' = q.clients
          /\ p \notin DOMAIN player_to_game'
          /\ (p \in DOMAIN player_to_game /\ player_to_game[p] \in DOMAIN games) =>
                LET gid == player_to_game[p] IN
                IF gid \in DOMAIN games'
                THEN /\ ~PlayerObject(games'[gid], p).is_active
                     /\ get_active_player_count(games'[gid]) > 0
                     /\ games[gid].state = PLAYING => games'[gid].state = FINISHED
                ELSE \A i \in 1..Len(games[gid].players) :
                        games[gid].players[i].is_active
                            => games[gid].players[i].player_id = p
      ]_vars

\* C17 witness: a session that has ended and is out of the table, whose
\* player is inactive in a game that was being played and is FINISHED.
C17_Witness ==
    \E p \in DOMAIN handlers : \E gid \in DOMAIN games :
        /\ p \notin clients
        /\ ~handlers[p].running
        /\ notified[p] = 1
        /\ in_players(games[gid], p)
        /\ ~PlayerObject(games[gid], p).is_active
        /\ games[gid].state = FINISHED
        /\ games[gid].board.move_count >= 1

\* C18: a session to which a send has failed is no longer in the session
\* table once the request that sent to it is done.
C18_WriteFailureDisconnects ==
    \A i \in 1..Len(sent) : ~sent[i].ok => sent[i].to \notin clients

\* The roster entries of game g that have a registered session, in order.
Registered(g) == SelectSeq(g.players, LAMBDA pl : pl.player_id \in clients)

\* C19: a broadcast to a room hands the message once to every registered
\* roster session, in roster order, whether or not the sends before it
\* went through, each send reporting its outcome; nothing else changes.
C19_BroadcastReachesAll ==
    \A gid \in DOMAIN games, msg_type \in RoomBroadcasts :
        LET reg == Registered(games[gid])
            res == broadcast_to_game(St, gid, msg_type, [game_id |-> gid])
        IN /\ res.sent = sent \o
                  [i \in 1..Len(reg) |->
                      [to |-> reg[i].player_id, type |-> msg_type,
                       data |-> [game_id |-> gid],
                       ok |-> can_send(handlers[reg[i].player_id])]]
           /\ [res EXCEPT !.sent = sent] = St

\* C19 witness: a request has broadcast to a room whose first registered
\* member could not be written to, and the member after it was delivered
\* the same message.
C19_Witness ==
    \E i \in 1..Len(sent) :
        /\ i < Len(sent)
        /\ sent[i].type \in RoomBroadcasts
        /\ ~sent[i].ok
        /\ sent[i + 1].ok
        /\ sent[i + 1].type = sent[i].type
        /\ sent[i + 1].to # sent[i].to
        /\ sent[i].to \in clients

\* R, the outcome of a request of session p, is one ERROR delivered to p
\* and nothing sent to anyone else, with p still registered and running.
OneError(R, p) ==
    /\ Len(R.sent) = 1
    /\ R.sent[1].to = p /\ R.sent[1].type = "ERROR" /\ R.sent[1].ok
    /\ R.clients = clients
    /\ R.handlers[p].running
    /\ R.handlers[p].socket_open

\* No message of R's is an ERROR.
NoError(R) == \A i \in 1..Len(R.sent) : R.sent[i].type # "ERROR"

\* C20: for every session that can take a request, a CREATE_GAME that
\* creates no game, a JOIN_GAME that adds the player to no roster and a
\* MAKE_MOVE that places no mark each produce exactly one ERROR, delivered
\* to the requester alone, and leave its session registered and running;
\* a request that is carried out produces no ERROR.
C20_RejectedGetsOneError ==
    \A p \in PlayerIds : Live(p) =>
        /\ \A n \in RoomSizes :
              LET R == handle_create_game(Fresh, p, n) IN
              IF DOMAIN R.games = DOMAIN games THEN OneError(R, p) ELSE NoError(R)
        /\ \A gid \in JoinIds :
              LET R == handle_join_game(Fresh, p, gid) IN
              IF gid \in DOMAIN games /\ gid \in DOMAIN R.games
                    /\ Len(R.games[gid].players) > Len(games[gid].players)
              THEN NoError(R) ELSE OneError(R, p)
        /\ OneError(handle_make_move(Fresh, p, FALSE, 0, 0), p)
        /\ \A row \in Coords, col \in Coords :
              LET R == handle_make_move(Fresh, p, TRUE, row, col) IN
              IF \E gid \in DOMAIN games :
                    R.games[gid].board.move_count > games[gid].board.move_count
              THEN NoError(R) ELSE OneError(R, p)

\* C20 witness: a MAKE_MOVE out of turn in a game in progress has just been
\* answered, by one ERROR to the requester, who is registered and running.
C20_Witness ==
    /\ Len(sent) = 1
    /\ sent[1].type = "ERROR"
    /\ sent[1].data.message = "Not your turn"
    /\ sent[1].ok
    /\ sent[1].to \in clients
    /\ handlers[sent[1].to].running
    /\ \E gid \in DOMAIN games :
          games[gid].state = PLAYING /\ in_players(games[gid], sent[1].to)

\* R leaves both registries of the GameManager as they are: the games map
\* with every roster, board and turn pointer, and player_to_game.
NoMutation(R) ==
    /\ R.games = games
    /\ R.player_to_game = player_to_game
    /\ R.next_game_id = next_game_id

\* C21: for every session that can take a request, in every reachable
\* state, a CREATE_GAME with num_players outside 2..10, a JOIN_GAME without
\* game_id and a MAKE_MOVE without row or col are each answered with one
\* ERROR and leave games (rosters, boards, turn pointers) and
\* player_to_game unchanged.
C21_ValidationNoMutation ==
    \A p \in PlayerIds : Live(p) =>
        /\ \A n \in RoomSizes \ (2..10) :
              LET R == handle_create_game(Fresh, p, n) IN
              OneError(R, p) /\ NoMutation(R)
                /\ R.sent[1].data.message = "Invalid number of players (2-10)"
        /\ LET R == handle_join_game(Fresh, p, NoGame) IN
              OneError(R, p) /\ NoMutation(R)
                /\ R.sent[1].data.message = "Game ID required"
        /\ LET R == handle_make_move(Fresh, p, FALSE, 0, 0) IN
              OneError(R, p) /\ NoMutation(R)
                /\ R.sent[1].data.message = "Row and column required"

\* C21 witness: a CREATE_GAME with a bad num_players has just been answered
\* by a member of a game in progress that has taken a move.
C21_Witness ==
    /\ Len(sent) = 1
    /\ sent[1].type = "ERROR"
    /\ sent[1].data.message = "Invalid number of players (2-10)"
    /\ \E gid \in DOMAIN games :
          /\ games[gid].state = PLAYING
          /\ games[gid].board.move_count >= 1
          /\ in_players(games[gid], sent[1].to)

\* The game player p is mapped to, or NoGame.
GameOf(p) ==
    IF p \in DOMAIN player_to_game /\ player_to_game[p] \in DOMAIN games
    THEN player_to_game[p] ELSE NoGame

\* R is the outcome of a MAKE_MOVE of p that was accepted: the board of p's
\* game took a mark.
MoveAccepted(R, p) ==
    /\ GameOf(p) # NoGame
    /\ GameOf(p) \in DOMAIN R.games
    /\ R.games[GameOf(p)].board.move_count > games[GameOf(p)].board.move_count

\* C22: an accepted MAKE_MOVE sends every registered roster session, in
\* roster order, a GAME_STATE snapshot holding the board with the new mark.
\* If the move completed a line or filled the board the game is FINISHED
\* and a GAME_OVER to every registered roster session follows the
\* snapshots, with is_draw false and winner the mover for a line, is_draw
\* true and no winner for a full board without one; otherwise nothing
\* follows the snapshots.
C22_MoveBroadcast ==
    \A p \in PlayerIds : Live(p) =>
      \A row \in PlayCoords, col \in PlayCoords :
        LET R == handle_make_move(Fresh, p, TRUE, row, col) IN
        MoveAccepted(R, p) =>
          LET g   == R.games[GameOf(p)]
              sym == PlayerObject(g, p).symbol
              reg == Registered(g)
              n   == Len(reg)
              won == RunThrough(g.board, row, col, sym)
              drawn == ~won /\ g.board.move_count = g.board.size * g.board.size
          IN /\ g.board.grid[row][col] = sym
             /\ n = Len(g.players)
             /\ (g.state = FINISHED) <=> (won \/ drawn)
             /\ Len(R.sent) = IF won \/ drawn THEN 2 * n ELSE n
             /\ \A i \in 1..n :
                   /\ R.sent[i].to = reg[i].player_id
                   /\ R.sent[i].type = "GAME_STATE"
                   /\ R.sent[i].ok
                   /\ R.sent[i].data.board = g.board
                   /\ R.sent[i].data.state = g.state
             /\ (won \/ drawn) =>
                   \A i \in 1..n :
                     /\ R.sent[n + i].to = reg[i].player_id
                     /\ R.sent[n + i].type = "GAME_OVER"
                     /\ R.sent[n + i].ok
                     /\ R.sent[n + i].data.is_draw = drawn
                     /\ R.sent[n + i].data.winner = IF won THEN p ELSE NoPlayer

\* C22 witness: a game that ended in a draw on its full 3x3 board, its
\* last move made by a session that is still registered.
C22_Witness ==
    \E gid \in DOMAIN games :
        /\ games[gid].is_draw
        /\ games[gid].state = FINISHED
        /\ games[gid].board.move_count = 9
        /\ Len(Registered(games[gid])) = 2

\* The messages a successful JOIN_GAME sends.
JoinMessages == {"GAME_JOINED", "GAME_STATE", "PLAYER_JOINED"}

\* R is the outcome of a JOIN_GAME of p for gid that succeeded: the roster
\* of the game took an entry.
JoinAccepted(R, gid) ==
    /\ gid \in DOMAIN games
    /\ gid \in DOMAIN R.games
    /\ Len(R.games[gid].players) > Len(games[gid].players)

\* C23: a JOIN_GAME that succeeds sends GAME_JOINED to the requester first,
\* with the game id, the player id and the symbol of its roster entry; then
\* a GAME_STATE snapshot whose roster holds the new player to every
\* registered roster session in roster order, the joiner among them; then
\* PLAYER_JOINED to the same sessions; and nothing else.  A JOIN_GAME that
\* fails sends none of the three.
C23_JoinSequence ==
    \A p \in PlayerIds : Live(p) =>
      \A gid \in JoinIds :
        LET R == handle_join_game(Fresh, p, gid) IN
        IF JoinAccepted(R, gid)
        THEN LET g   == R.games[gid]
                 reg == Registered(g)
                 n   == Len(reg)
             IN /\ Len(R.sent) = 1 + 2 * n
                /\ R.sent[1].to = p /\ R.sent[1].type = "GAME_JOINED" /\ R.sent[1].ok
                /\ R.sent[1].data = [game_id |-> gid, player_id |-> p,
                                     symbol |-> PlayerObject(g, p).symbol]
                /\ \E i \in 1..n : reg[i].player_id = p
                /\ \A i \in 1..n :
                      /\ R.sent[1 + i].to = reg[i].player_id
                      /\ R.sent[1 + i].type = "GAME_STATE"
                      /\ R.sent[1 + i].data.players = g.players
                      /\ in_players(g, p)
                      /\ R.sent[1 + n + i].to = reg[i].player_id
                      /\ R.sent[1 + n + i].type = "PLAYER_JOINED"
                      /\ R.sent[1 + n + i].data.player.player_id = p
        ELSE \A i \in 1..Len(R.sent) : R.sent[i].type \notin JoinMessages

\* C23 witness: the join that filled a room of two has just been answered:
\* GAME_JOINED, two snapshots, two PLAYER_JOINED.
C23_Witness ==
    /\ Len(sent) = 5
    /\ sent[1].type = "GAME_JOINED"
    /\ sent[2].type = "GAME_STATE" /\ sent[3].type = "GAME_STATE"
    /\ sent[4].type = "PLAYER_JOINED" /\ sent[5].type = "PLAYER_JOINED"
    /\ sent[3].to = sent[1].to
    /\ sent[2].to # sent[1].to

\* The roster position (from 1) of the player whose mark is the one that
\* board b2 holds and board b1 does not, or 0 if the grids are equal.
MoverBetween(g, b1, b2) ==
    LET cells == {rc \in (0..(b1.size - 1)) \X (0..(b1.size - 1)) :
                    b1.grid[rc[1]][rc[2]] # b2.grid[rc[1]][rc[2]]}
    IN IF cells = {} THEN 0
       ELSE LET rc == CHOOSE x \in cells : TRUE IN
            CHOOSE i \in 1..Len(g.players) : g.players[i].symbol = b2.grid[rc[1]][rc[2]]

\* The first active roster entry of g at the circular positions after
\* roster position i (from 1): i + 1, i + 2, ..., back to i.
NextActiveAfter(g, i) ==
    LET n == Len(g.players)
        at(k) == g.players[((i - 1 + k) % n) + 1]
        ks == {k \in 1..n : at(k).is_active}
    IN IF ks = {} THEN NoPlayer
       ELSE at(CHOOSE k \in ks : \A m \in ks : k <= m).player_id

\* C24: in a PLAYING game the current player is an active roster entry, and
\* get_current_player and to_dict return it without changing who it is;
\* a step that puts a mark on the board puts the mark of the current
\* player, and if the game goes on the next current player is the first
\* active entry at the circular positions after the mover, and is not the
\* mover; a step that puts no mark leaves the current player of a game that
\* is still PLAYING the same.
C24_TurnOrder ==
    [][\A gid \in (DOMAIN games) \cap (DOMAIN games') :
         LET g  == games[gid]
             g2 == games'[gid]
             i  == MoverBetween(g, g.board, g2.board)
         IN g.state = PLAYING =>
              /\ TurnOf(g) # NoPlayer
              /\ PlayerObject(g, TurnOf(g)).is_active
              /\ get_current_player(g).player = TurnOf(g)
              /\ TurnOf(get_current_player(g).game) = TurnOf(g)
              /\ to_dict(g).data.current_player_id = TurnOf(g)
              /\ TurnOf(to_dict(g).game) = TurnOf(g)
              /\ i # 0 =>
                    /\ g.players[i].player_id = TurnOf(g)
                    /\ g2.state = PLAYING =>
                          /\ TurnOf(g2) = NextActiveAfter(g2, i)
                          /\ TurnOf(g2) # g.players[i].player_id
              /\ (i = 0 /\ g2.state = PLAYING) => TurnOf(g2) = TurnOf(g)]_vars

\* C24 witness: a room of three in progress whose first roster entry left
\* before it filled; two moves were made and the turn, having wrapped
\* around, has been carried past the inactive entry to the second one.
C24_Witness ==
    \E gid \in DOMAIN games :
        /\ games[gid].state = PLAYING
        /\ Len(games[gid].players) = 3
        /\ ~games[gid].players[1].is_active
        /\ games[gid].board.move_count = 2
        /\ games[gid].current_player_index = 1

\* Board b is the empty board of a game for n players: side n + 1, every
\* cell empty, no move counted, win_length n + 1.
EmptyBoardFor(b, n) ==
    /\ b.size = n + 1
    /\ b.win_length = n + 1
    /\ b.move_count = 0
    /\ DOMAIN b.grid = 0..n
    /\ \A r \in 0..n : DOMAIN b.grid[r] = 0..n /\ \A c \in 0..n : b.grid[r][c] = None

RosterFits(g) ==
    /\ Len(g.players) <= g.num_players
    /\ g.state = PLAYING => Len(g.players) = g.num_players
    /\ g.state = WAITING => Len(g.players) < g.num_players

\* C26: with requests handled one at a time, before and after every step
\* each game in games is PLAYING only with a roster of num_players entries,
\* WAITING only with fewer, and never has more; a step that brings the
\* roster of a WAITING game to num_players leaves it PLAYING, and a step
\* that turns a WAITING game into a PLAYING one is a step that added the
\* entry completing its roster.
C26_RosterAndState ==
    [][/\ \A gid \in DOMAIN games : RosterFits(games[gid])
       /\ \A gid \in DOMAIN games' : RosterFits(games'[gid])
       /\ \A gid \in (DOMAIN games) \cap (DOMAIN games') :
            LET g == games[gid]
                g2 == games'[gid]
            IN g.state = WAITING =>
                 /\ Len(g2.players) = g2.num_players => g2.state = PLAYING
                 /\ g2.state = PLAYING =>
                       /\ Len(g2.players) = Len(g.players) + 1
                       /\ Len(g2.players) = g2.num_players
                 /\ g2.state # FINISHED]_vars

\* C26 witness: a room of three that has just filled: PLAYING, three roster
\* entries, no move made.
C26_Witness ==
    \E gid \in DOMAIN games :
        /\ games[gid].state = PLAYING
        /\ games[gid].num_players = 3
        /\ Len(games[gid].players) = 3
        /\ games[gid].board.move_count = 0

\* Player p is an active entry of the roster of g.
ActiveIn(g, p) == in_players(g, p) /\ PlayerObject(g, p).is_active

\* Game g is WAITING or PLAYING.
Open(g) == g.state \in {WAITING, PLAYING}

\* C27: with requests handled one at a time, in every reachable state each
\* entry p -> gid of player_to_game names a game of games in whose roster p
\* is active; in each WAITING or PLAYING game of games a player is an
\* active roster member exactly if it is mapped to that game; and no
\* player is active in two WAITING or PLAYING games.
C27_MappingIffActive ==
    /\ \A p \in DOMAIN player_to_game :
          /\ player_to_game[p] \in DOMAIN games
          /\ ActiveIn(games[player_to_game[p]], p)
    /\ \A gid \in DOMAIN games : Open(games[gid]) =>
          \A p \in PlayerIds :
            ActiveIn(games[gid], p) <=>
                (p \in DOMAIN player_to_game /\ player_to_game[p] = gid)
    /\ \A p \in PlayerIds : \A g1, g2 \in DOMAIN games :
          (g1 # g2 /\ Open(games[g1]) /\ Open(games[g2]))
              => ~(ActiveIn(games[g1], p) /\ ActiveIn(games[g2], p))

\* Game g2 is game g with the roster entry of p marked inactive and nothing
\* else about the roster, the board or the turn changed.
Departed(g, g2, p) ==
    /\ Len(g2.players) = Len(g.players)
    /\ \A i \in 1..Len(g.players) :
          IF g.players[i].player_id = p
          THEN g2.players[i] = [g.players[i] EXCEPT !.is_active = FALSE]
          ELSE g2.players[i] = g.players[i]
    /\ g2.board = g.board
    /\ g2.current_player_index = g.current_player_index
    /\ g2.num_players = g.num_players

\* C28: in every reachable state, leave_game(p) for a player without a
\* mapping returns no game and changes nothing; for a mapped player it
\* returns the game the player is mapped to, with the player's roster entry
\* kept and marked inactive, removes the player's mapping, turns a PLAYING
\* game into a FINISHED one with no winner and is_draw false, leaves a
\* WAITING game WAITING, and deletes the game from games exactly if no
\* active player remains.
C28_LeaveGame ==
    \A p \in PlayerIds :
      LET lv == leave_game(St, p) IN
      IF p \notin DOMAIN player_to_game
      THEN ~lv.found /\ lv.st = St
      ELSE LET gid == player_to_game[p] IN
           /\ gid \in DOMAIN games
           /\ lv.found
           /\ lv.game.game_id = gid
           /\ Departed(games[gid], lv.game, p)
           /\ p \notin DOMAIN lv.st.player_to_game
           /\ games[gid].state = PLAYING =>
                 /\ lv.game.state = FINISHED
                 /\ lv.game.winner = NoPlayer
                 /\ ~lv.game.is_draw
           /\ games[gid].state = WAITING => lv.game.state = WAITING
           /\ (get_active_player_count(lv.game) = 0) <=> (gid \notin DOMAIN lv.st.games)
           /\ gid \in DOMAIN lv.st.games => lv.st.games[gid] = lv.game
           /\ \A other \in (DOMAIN games) \ {gid} :
                 other \in DOMAIN lv.st.games /\ lv.st.games[other] = games[other]

\* C28 witness: beside a second game, a room that filled and was left by
\* one of its players before any move: FINISHED, no winner, no draw, the
\* leaver inactive in the roster and unmapped, another member still active.
C28_Witness ==
    /\ Cardinality(DOMAIN games) = 2
    /\ \E gid \in DOMAIN games :
          LET g == games[gid] IN
          /\ g.state = FINISHED /\ g.winner = NoPlayer /\ ~g.is_draw
          /\ g.board.move_count = 0
          /\ \E i, j \in 1..Len(g.players) :
                /\ ~g.players[i].is_active
                /\ g.players[i].player_id \notin DOMAIN player_to_game
                /\ g.players[j].is_active

\* C29: a step in which a player departs from a PLAYING game that had three
\* or more active players and keeps two or more leaves the game PLAYING;
\* and a step that finishes a PLAYING game without a winner and without a
\* draw leaves it with at most one active player.
C29_PlayContinues ==
    [][\A gid \in (DOMAIN games) \cap (DOMAIN games') :
         LET g  == games[gid]
             g2 == games'[gid]
         IN g.state = PLAYING =>
              /\ (/\ get_active_player_count(g) >= 3
                  /\ get_active_player_count(g2) < get_active_player_count(g)
                  /\ get_active_player_count(g2) >= 2) => g2.state = PLAYING
              /\ (g2.state = FINISHED /\ g2.winner = NoPlayer /\ ~g2.is_draw)
                    => get_active_player_count(g2) <= 1]_vars

\* C30: after every request, games holds no game whose roster has entries
\* none of which is active, and no FINISHED game none of whose roster
\* members is mapped to it.
C30_FinishedRemoved ==
    \A gid \in DOMAIN games :
      LET g == games[gid] IN
      /\ ~(Len(g.players) > 0 /\ get_active_player_count(g) = 0)
      /\ ~(/\ g.state = FINISHED
            /\ \A i \in 1..Len(g.players) :
                  LET p == g.players[i].player_id IN
                  ~(p \in DOMAIN player_to_game /\ player_to_game[p] = gid))

\* The roster positions of g whose is_active flag is set.
ActiveEntries(g) == {i \in 1..Len(g.players) : g.players[i].is_active}

\* C32: with requests handled one at a time, in every reachable state a
\* PLAYING game has at least two active roster entries, and
\* get_current_player returns one of them, never none.
C32_CurrentPlayerActive ==
    \A gid \in DOMAIN games :
      LET g == games[gid] IN
      g.state = PLAYING =>
        /\ Cardinality(ActiveEntries(g)) >= 2
        /\ get_current_player(g).player # NoPlayer
        /\ \E i \in ActiveEntries(g) :
              g.players[i].player_id = get_current_player(g).player

\* C32 witness: a room of three in progress whose first roster entry left
\* before it filled; after one move it is the turn of the third entry.
C32_Witness ==
    \E gid \in DOMAIN games :
        /\ games[gid].state = PLAYING
        /\ ActiveEntries(games[gid]) = {2, 3}
        /\ games[gid].board.move_count = 1
        /\ get_current_player(games[gid]).player = games[gid].players[3].player_id

\* The cells of board b, and those that hold a symbol.
Cells(b) == (0..(b.size - 1)) \X (0..(b.size - 1))
Occupied(b) == {rc \in Cells(b) : b.grid[rc[1]][rc[2]] # None}

\* C33: over any sequence of Board.make_move calls, a step never clears or
\* overwrites an occupied cell; move_count equals the number of occupied
\* cells and is at most size*size; is_full() holds exactly when move_count
\* is size*size, which is exactly when no cell is empty; and a call on an
\* occupied or out-of-bounds target returns false and changes nothing,
\* while a call on an empty cell returns true, writes the symbol there and
\* nowhere else, and counts one move.
C33_BoardMoves ==
    [][\A gid \in (DOMAIN games) \cap (DOMAIN games') :
         LET b  == games[gid].board
             b2 == games'[gid].board
         IN /\ \A rc \in Occupied(b) : b2.grid[rc[1]][rc[2]] = b.grid[rc[1]][rc[2]]
            /\ b2.move_count = Cardinality(Occupied(b2))
            /\ b2.move_count <= b2.size * b2.size
            /\ is_full(b2) <=> (b2.move_count = b2.size * b2.size)
            /\ is_full(b2) <=> (Occupied(b2) = Cells(b2))
            /\ \A row \in TryCoords(b), col \in TryCoords(b), symbol \in {SYMBOLS[1], SYMBOLS[2]} :
                  LET mv == board_make_move(b, row, col, symbol) IN
                  IF <<row, col>> \in Cells(b) \ Occupied(b)
                  THEN /\ mv.ok
                       /\ mv.board.grid[row][col] = symbol
                       /\ mv.board.move_count = b.move_count + 1
                       /\ \A rc \in Cells(b) \ {<<row, col>>} :
                             mv.board.grid[rc[1]][rc[2]] = b.grid[rc[1]][rc[2]]
                  ELSE ~mv.ok /\ mv.board = b]_vars

\* C33 witness: a board whose nine cells are all occupied.
C33_Witness ==
    /\ 1 \in DOMAIN games
    /\ Occupied(games[1].board) = Cells(games[1].board)
    /\ is_full(games[1].board)
    /\ ~board_make_move(games[1].board, 1, 1, SYMBOLS[1]).ok

\* C35: after every request, the current_game_id of each registered
\* session is the player_to_game entry of its player, and none when the
\* player has no entry.
C35_CurrentGameMirrors ==
    \A p \in clients :
        handlers[p].current_game_id =
            IF p \in DOMAIN player_to_game THEN player_to_game[p] ELSE NoGame

\* Board b holds a complete line of win_length cells of symbol.
HasLineOf(b, symbol) ==
    \E row \in 0..(b.size - 1), col \in 0..(b.size - 1) :
        b.grid[row][col] = symbol /\ RunThrough(b, row, col, symbol)

\* Board b has no empty cell.
NoEmptyCell(b) ==
    \A row \in 0..(b.size - 1), col \in 0..(b.size - 1) : b.grid[row][col] # None

\* C37: with requests handled one at a time, in every reachable state: a
\* game with a winner is FINISHED and its board holds a complete line of
\* the winner's symbol; a game with is_draw is FINISHED, its board full and
\* without a complete line; a PLAYING game has a board that is not full and
\* holds no complete line; a WAITING game has an empty board, no winner
\* and is_draw false.
C37_OutcomeMatchesBoard ==
    \A gid \in DOMAIN games :
      LET g == games[gid] IN
      /\ g.winner # NoPlayer =>
            /\ g.state = FINISHED
            /\ in_players(g, g.winner)
            /\ HasLineOf(g.board, PlayerObject(g, g.winner).symbol)
      /\ g.is_draw =>
            /\ g.state = FINISHED
            /\ NoEmptyCell(g.board)
            /\ ~HasLine(g.board)
      /\ g.state = PLAYING => ~NoEmptyCell(g.board) /\ ~HasLine(g.board)
      /\ g.state = WAITING =>
            /\ \A row \in 0..(g.board.size - 1), col \in 0..(g.board.size - 1) :
                  g.board.grid[row][col] = None
            /\ g.board.move_count = 0
            /\ g.winner = NoPlayer
            /\ ~g.is_draw

\* C37 witness: a game won on the main diagonal by its fifth move, with
\* empty cells left on the board.
C37_Witness ==
    \E gid \in DOMAIN games :
        LET g == games[gid] IN
        /\ g.state = FINISHED
        /\ g.winner # NoPlayer
        /\ g.board.move_count = 5
        /\ g.board.grid[0][0] = g.board.grid[1][1]
        /\ g.board.grid[1][1] = g.board.grid[2][2]
        /\ g.board.grid[1][1] = PlayerObject(g, g.winner).symbol

\* C39: in every reachable state, a MAKE_MOVE that is rejected (the board of
\* the player's game takes no mark, or the player has no game) leaves games
\* and player_to_game as they were.
C39_RejectedMoveNoMutation ==
    \A p \in PlayerIds : Live(p) =>
      \A row \in Coords, col \in Coords :
        LET R == handle_make_move(Fresh, p, TRUE, row, col) IN
        ~MoveAccepted(R, p) =>
            /\ R.games = games
            /\ R.player_to_game = player_to_game

\* C40: over every step a roster keeps its entries in place and only
\* gains entries; current_player_count of a snapshot is the number of
\* entries, inactive ones included; a game is PLAYING only with num_players
\* entries; and a player who left a WAITING game that is still in games
\* is taken back by a JOIN_GAME for that game.
C40_RosterGrowsAndRejoin ==
    [][/\ \A gid \in (DOMAIN games) \cap (DOMAIN games') :
            /\ Len(games'[gid].players) >= Len(games[gid].players)
            /\ \A i \in 1..Len(games[gid].players) :
                  games'[gid].players[i].player_id = games[gid].players[i].player_id
            /\ to_dict(games[gid]).data.current_player_count = Len(games[gid].players)
            /\ games'[gid].state = PLAYING =>
                  Len(games'[gid].players) = games'[gid].num_players
       /\ \A p \in PlayerIds : \A gid \in DOMAIN games :
            (/\ Live(p)
             /\ games[gid].state = WAITING
             /\ in_players(games[gid], p)
             /\ ~PlayerObject(games[gid], p).is_active
             /\ p \notin DOMAIN player_to_game)
              => LET R == handle_join_game(Fresh, p, gid) IN
                 /\ p \in DOMAIN R.player_to_game
                 /\ R.player_to_game[p] = gid
                 /\ ActiveIn(R.games[gid], p)]_vars

\* The threads that run _receive_loop on the handler of session p.
ReceiveLoops(p) ==
    {t \in ThreadIds : Len(stack[t]) > 0 /\ stack[t][1].pc = "loop" /\ stack[t][1].p = p}

\* C34: whatever calls of start() a session gets, at most one thread runs
\* its receive loop.
C34_StartIdempotent ==
    \A p \in DOMAIN handlers : Cardinality(ReceiveLoops(p)) <= 1

\* C31: whatever the interleaving of a move and a quit, a game that is
\* FINISHED keeps its board as it is, and a finished game without a winner
\* gets none.
C31_NoWriteAfterFinished ==
    [][\A gid \in DOMAIN games :
          gid \in DOMAIN games' /\ games[gid].state = FINISHED
             => /\ games'[gid].board = games[gid].board
                /\ games[gid].winner = NoPlayer => games'[gid].winner = NoPlayer]_vars

\* The GAME_OVER messages written to the socket of session p since no
\* handler was under way.
GameOvers(p) ==
    {i \in 1..Len(sent) : sent[i].to = p /\ sent[i].type = "GAME_OVER" /\ sent[i].ok}

\* C38: no session is sent GAME_OVER twice for the one game of the room.
C38_GameOverOnce ==
    \A p \in PlayerIds : Cardinality(GameOvers(p)) <= 1

\* C36: while a thread is blocked in the sendall of a broadcast, the accept
\* thread is not kept from registering a new connection and no other
\* thread is kept from its own broadcast: none of them waits for
\* clients_lock.
C36_StalledSendAlone ==
    \A t \in PlayerIds :
        At(t, "sendall")
           => /\ ~At(AcceptThread, "a_lock")
              /\ \A u \in PlayerIds \ {t} : ~WaitsForLock(u)

====
